---- MODULE Spec2Model ----
(***************************************************************************)
(* Branch / pull-request synchronisation engine of conda_forge_tick        *)
(* (git_utils.py): the cached pull-request record, its trimming, the lazy  *)
(* refresh against the hosted API, branch deletion, the two closure rules  *)
(* (stale rerun label, merge-conflicted PR), publishing (push_repo) and    *)
(* labelling (ensure_label_exists, label_pr).                              *)
(*                                                                         *)
(* Spec is the life of one pull request under the polling passes,          *)
(* SpecPublish is publishing and labelling (SpecPublishLive with the       *)
(* functions running to their end), SpecLazy is the lazy refresh on its    *)
(* own, SpecTrim is trimming on its own, SpecClients is the worker threads *)
(* asking for their client handles, SpecRate is the threads probing the    *)
(* rate limit and SpecFetch is fetch_repo on a clone directory.            *)
(* SpecWorkdir is the clone directory under fetch_repo and push_repo,      *)
(* SpecFork is get_repo with the fork and its default branch, SpecBranch   *)
(* is a branch from its push to its deletion.  SpecUrl (feedstock_url and  *)
(* fork_url), SpecMask (the token-hiding output functions of utils.py),    *)
(* SpecPluck (pluck) and SpecLog (fold_log_lines) apply functions of their *)
(* arguments to inputs drawn from bounded sets; there a string is a        *)
(* sequence of characters.                                                 *)
(*                                                                         *)
(* A JSON mapping is a function whose domain is a set of strings; a JSON   *)
(* list is a sequence; None is the string "None" where the value is a      *)
(* string, and an absent key is a key outside the domain.  A URL or a      *)
(* repository name is a sequence of tokens in which the separators the     *)
(* code splits on ("/conda-forge/", "/pull/", "/") are tokens of their     *)
(* own.                                                                    *)
(***************************************************************************)
EXTENDS Integers, Sequences, FiniteSets, TLC

(* ------------------------------------------------------------------ *)
(* Bounds                                                             *)
(* ------------------------------------------------------------------ *)

\* number of attempts the backoff decorator makes before its time budget
\* (MAX_GITHUB_TIMEOUT) is used up
MaxTries == 2

\* number of failures (exceptions, error statuses) the network produces in
\* one behaviour
MaxFaults == 1

\* number of worker threads
MaxThreads == 2

\* requests the bot has left after a reset of the rate limit
MaxRemaining == 1

(* ------------------------------------------------------------------ *)
(* Program constants                                                  *)
(* ------------------------------------------------------------------ *)

None == "None"

BOT_RERUN_LABEL == [name |-> "bot-rerun"]

CF_BOT_NAMES == {"regro-cf-autotick-bot", "conda-forge-linter"}

NOT_A_BRANCH == "this_is_not_a_branch"

\* a leaf of PR_KEYS_TO_KEEP (None in the source) is the empty mapping
Leaf == <<>>

PR_KEYS_TO_KEEP ==
    ("ETag" :> Leaf) @@ ("Last-Modified" :> Leaf) @@ ("id" :> Leaf)
    @@ ("number" :> Leaf) @@ ("html_url" :> Leaf) @@ ("created_at" :> Leaf)
    @@ ("updated_at" :> Leaf) @@ ("merged_at" :> Leaf) @@ ("closed_at" :> Leaf)
    @@ ("state" :> Leaf) @@ ("mergeable_state" :> Leaf) @@ ("labels" :> Leaf)
    @@ ("merged" :> Leaf) @@ ("draft" :> Leaf) @@ ("mergeable" :> Leaf)
    @@ ("head" :> ("ref" :> Leaf))
    @@ ("base" :> ("repo" :> ("name" :> Leaf)))

(* ------------------------------------------------------------------ *)
(* The one pull request of the model, as the hosted API knows it      *)
(* ------------------------------------------------------------------ *)

RepoName == <<"foo-feedstock">>
PrNumber == 12
Branch == "bot-branch"
HtmlUrl == <<"https://github.com", "/conda-forge/", "foo-feedstock", "/pull/", "12">>

HumanName == "a-human"
AuthorSets == {{"regro-cf-autotick-bot", "conda-forge-linter"},
               {"regro-cf-autotick-bot", HumanName}}

\* labels as the API returns them: name-tagged objects with further fields
RerunLabelObj == [name |-> "bot-rerun", color |-> "red"]
OtherLabelObj == [name |-> "automerge", color |-> "green"]

(* ------------------------------------------------------------------ *)
(* Mappings                                                           *)
(* ------------------------------------------------------------------ *)

\* dict.get(k, default)
Get(d, k, default) == IF k \in DOMAIN d THEN d[k] ELSE default

\* d[k] = v on a copy of d
Put(d, k, v) == [x \in (DOMAIN d) \cup {k} |-> IF x = k THEN v ELSE d[x]]

RECURSIVE munge_dict(_, _)
RECURSIVE munge_dict_hoist(_, _)
RECURSIVE hoist_all(_, _, _)

hoist_all(src, keys, ks) ==
    IF ks = {} THEN <<>>
    ELSE LET k == CHOOSE j \in ks : TRUE
         IN  munge_dict_hoist(src[k], keys[k]) @@ hoist_all(src, keys, ks \ {k})

\* _munge_dict with the recursive call writing into dest instead of dest[k]:
\* the nested keys land in the parent mapping
munge_dict_hoist(src, keys) ==
    LET present == DOMAIN keys \cap DOMAIN src
        nested == {k \in present : DOMAIN keys[k] # {}}
    IN  [k \in present |-> IF DOMAIN keys[k] = {} THEN src[k] ELSE <<>>]
        @@ hoist_all(src, keys, nested)

\* _munge_dict: the keys of src that keys names, nested mappings trimmed
\* in turn
munge_dict(src, keys) ==
    [k \in (DOMAIN keys \cap DOMAIN src) |->
        IF DOMAIN keys[k] = {} THEN src[k] ELSE munge_dict(src[k], keys[k])]

\* trim_pr_json_keys whose nested keys land in the parent mapping
trim_pr_json_keys_hoist(pr_json, src_pr_json) ==
    munge_dict_hoist(src_pr_json, PR_KEYS_TO_KEEP)

\* trim_pr_json_keys keeping every mapping under head and base whole
trim_pr_json_keys_shallow(pr_json, src_pr_json) ==
    [k \in (DOMAIN PR_KEYS_TO_KEEP \cap DOMAIN src_pr_json) |-> src_pr_json[k]]

\* trim_pr_json_keys(pr_json, src_pr_json): the new content of pr_json.
\* The call with one argument is the call with src_pr_json = pr_json (the
\* source takes a deep copy of pr_json before clearing it).
trim_pr_json_keys(pr_json, src_pr_json) ==
    munge_dict(src_pr_json, PR_KEYS_TO_KEEP)

(* ------------------------------------------------------------------ *)
(* Token strings                                                      *)
(* ------------------------------------------------------------------ *)

\* index of the first occurrence of tok in s, 0 when there is none
IndexOf(s, tok) ==
    IF \E i \in 1..Len(s) : s[i] = tok
    THEN CHOOSE i \in 1..Len(s) : s[i] = tok /\ \A j \in 1..(i - 1) : s[j] # tok
    ELSE 0

\* s.split(sep)[0]
SplitHead(s, sep) ==
    IF IndexOf(s, sep) = 0 THEN s ELSE SubSeq(s, 1, IndexOf(s, sep) - 1)

\* s.split(sep)[1]  (only used where sep occurs in s)
SplitSecond(s, sep) ==
    SplitHead(SubSeq(s, IndexOf(s, sep) + 1, Len(s)), sep)

(* ------------------------------------------------------------------ *)
(* State                                                              *)
(* ------------------------------------------------------------------ *)

VARIABLES
    gh,          \* the pull request on the hosted API
    fork_branch, \* TRUE while the head branch exists on the bot's fork
    pr_json,     \* the cached record, the object the caller passes in
    pr_copy,     \* refresh_pr: its deep copy of the record
    pc,          \* position of the running operation, "idle" between calls
    op,          \* the operation running, or the last one run
    dry_run,     \* the dry_run argument of that call
    tries,       \* attempts made by the backoff decorator in this call
    ret,         \* outcome of the last call
    arg0,        \* the record as it was when the call started (for
                 \* fetch_repo: the clone directory as it was)
    gh0,         \* the remote pull request as it was when the call started
    eff,         \* calls made to the outside by the call, all attempts
    last_status, \* status code of the last answered fetch of the call
    authors_seen,\* close_out_dirty_prs: commit authors it listed
    decided_on,  \* the record the second test of a closure rule looked at
    prev,        \* where the cached record comes from
    input_from,  \* prev at the time the call started
    faults,      \* failures the network has produced so far
    chain,       \* the polling passes on the current pull request
    regro_remote,\* TRUE while the clone directory has the remote regro_remote
    label_exists,\* TRUE while the repository has the label of label_dict
    dry_said,    \* what a dry run of the same call just returned
    rate,        \* the core rate limit of the hosted API for the bot
    workers,     \* the worker threads: position, thread-local clients
    made,        \* the client handles each thread has constructed
    clone,       \* the clone directory fetch_repo works in
    upstream_tip,\* tip of the base branch in the upstream repository
    forge,       \* the upstream repository and the fork on the hosted API
    pr_info,     \* fctx.attrs["pr_info"] of the feedstock
    logs         \* LOG_LINES_FOLDED, the sections entered, the lines printed

\* the state of the client handles and of the rate limit
client_vars == <<rate, workers, made>>

\* the state fetch_repo works on
git_vars == <<clone, upstream_tip>>

\* the state get_repo and fold_log_lines work on
other_vars == <<forge, pr_info, logs>>

vars == <<gh, fork_branch, pr_json, pr_copy, pc, op, dry_run, tries, ret,
          arg0, gh0, eff, last_status, authors_seen, decided_on, prev,
          input_from, faults, chain, regro_remote, label_exists, dry_said,
          rate, workers, made, clone, upstream_tip, forge, pr_info, logs>>

(* ------------------------------------------------------------------ *)
(* The hosted API                                                     *)
(* ------------------------------------------------------------------ *)

\* cache validator of the pull-request resource: changes with its content
EtagOf(g) == <<g.state, g.merged_at, g.labels, g.mergeable_state, g.draft>>
LastModifiedOf(g) == <<"modified", EtagOf(g)>>

\* body of GET /repos/conda-forge/<name>/pulls/<number>
GhJson(g) ==
    [id |-> 1001, number |-> PrNumber, html_url |-> HtmlUrl,
     created_at |-> "t-created", updated_at |-> "t-updated",
     merged_at |-> g.merged_at,
     closed_at |-> IF g.state = "closed" THEN "t-closed" ELSE None,
     state |-> g.state, mergeable_state |-> g.mergeable_state,
     labels |-> g.labels, merged |-> (g.merged_at # None),
     draft |-> g.draft, mergeable |-> (g.mergeable_state # "dirty"),
     title |-> "a title", body |-> "a body",
     user |-> [login |-> "regro-cf-autotick-bot"],
     head |-> [ref |-> Branch, sha |-> "abc", label |-> "bot:bot-branch"],
     base |-> [ref |-> "main",
               repo |-> [name |-> RepoName, id |-> 77, private |-> FALSE]]]

\* pr.as_dict() of the client library: the body plus the cache headers
AsDict(g) ==
    ("ETag" :> EtagOf(g)) @@ ("Last-Modified" :> LastModifiedOf(g)) @@ GhJson(g)


\* the request with the conditional header whenever an ETag is cached
lazy_update_request_forced_too(pr, force) ==
    [name |-> pr["base"]["repo"]["name"], number |-> pr["number"],
     if_none_match |-> IF "ETag" \in DOMAIN pr
                       THEN <<pr["ETag"]>> ELSE <<>>]

\* the request lazy_update_pr_json sends for an already repaired record:
\* the conditional header is present when force is off and an ETag is cached
lazy_update_request(pr, force) ==
    [name |-> pr["base"]["repo"]["name"], number |-> pr["number"],
     if_none_match |-> IF ~force /\ "ETag" \in DOMAIN pr
                       THEN <<pr["ETag"]>> ELSE <<>>]

\* the answer of the API to a request while the pull request is g
Answer(req, g) ==
    LET status == IF req.name # RepoName \/ req.number # PrNumber THEN 404
                  ELSE IF req.if_none_match = <<EtagOf(g)>> THEN 304
                  ELSE 200
    IN  [status_code |-> status, json |-> GhJson(g),
         headers |-> ("ETag" :> EtagOf(g)) @@ ("Last-Modified" :> LastModifiedOf(g))]

\* an answer with an error status (server error, forbidden)
ErrorAnswer(g) ==
    [status_code |-> 500, json |-> [message |-> "Server Error"],
     headers |-> <<>>]

\* the answer to a request the API refuses
ForbiddenAnswer(g) ==
    [status_code |-> 403, json |-> [message |-> "Forbidden"],
     headers |-> <<>>]

(* ------------------------------------------------------------------ *)
(* lazy_update_pr_json                                                *)
(* ------------------------------------------------------------------ *)

\* the backfill of base.repo.name without the removal of the suffix
repair_base_keeps_suffix(pr) ==
    LET base0 == pr["base"]
        missing == "repo" \notin DOMAIN base0
                   \/ "name" \notin DOMAIN base0["repo"]
        url_name == SplitSecond(pr["html_url"], "/conda-forge/")
        back_name == IF url_name # <<>> /\ url_name[Len(url_name)] = "/"
                     THEN SubSeq(url_name, 1, Len(url_name) - 1)
                     ELSE url_name
        repo1 == IF "repo" \in DOMAIN base0 THEN base0["repo"] ELSE <<>>
        name1 == IF missing THEN back_name ELSE repo1["name"]
    IN  Put(pr, "base", Put(base0, "repo", Put(repo1, "name", name1)))

\* the backfill of base.repo.name and the removal of a "/pull/..." suffix,
\* done in place before the request is sent
repair_base(pr) ==
    LET base0 == pr["base"]
        missing == "repo" \notin DOMAIN base0
                   \/ "name" \notin DOMAIN base0["repo"]
        url_name == SplitSecond(pr["html_url"], "/conda-forge/")
        back_name == IF url_name # <<>> /\ url_name[Len(url_name)] = "/"
                     THEN SubSeq(url_name, 1, Len(url_name) - 1)
                     ELSE url_name
        repo1 == IF "repo" \in DOMAIN base0 THEN base0["repo"] ELSE <<>>
        name1 == IF missing THEN back_name ELSE repo1["name"]
        name2 == IF IndexOf(name1, "/pull/") # 0
                 THEN SplitHead(name1, "/pull/") ELSE name1
    IN  Put(pr, "base", Put(base0, "repo", Put(repo1, "name", name2)))

\* lazy_update_pr_json never taking over the response
lazy_update_pr_json_never(pr, r) ==
    LET p == repair_base(pr) IN trim_pr_json_keys(p, p)

\* lazy_update_pr_json taking over the body of a 404 answer as well
lazy_update_pr_json_not_found_too(pr, r) ==
    LET p == repair_base(pr)
    IN  IF r.status_code \in {200, 404}
        THEN Put(Put(trim_pr_json_keys(p, r.json), "ETag", r.headers["ETag"]),
                 "Last-Modified", r.headers["Last-Modified"])
        ELSE trim_pr_json_keys(p, p)

\* lazy_update_pr_json writing the response over the record without
\* clearing it first: the head of the cached record stays
lazy_update_pr_json_keep_head(pr, r) ==
    LET p == repair_base(pr)
    IN  IF r.status_code = 200
        THEN Put(Put(Put(trim_pr_json_keys(p, r.json), "head", p["head"]),
                     "ETag", r.headers["ETag"]),
                 "Last-Modified", r.headers["Last-Modified"])
        ELSE trim_pr_json_keys(p, p)

\* lazy_update_pr_json once the response r has arrived: the new content of
\* the record
lazy_update_pr_json(pr, r) ==
    LET p == repair_base(pr)
    IN  IF r.status_code = 200
        THEN Put(Put(trim_pr_json_keys(p, r.json), "ETag", r.headers["ETag"]),
                 "Last-Modified", r.headers["Last-Modified"])
        ELSE trim_pr_json_keys(p, p)

(* ------------------------------------------------------------------ *)
(* Tests of the closure rules                                         *)
(* ------------------------------------------------------------------ *)

LabelNames(pr) ==
    LET labs == Get(pr, "labels", <<>>)
    IN  {labs[i].name : i \in 1..Len(labs)}

\* the rerun test without the test of the state
rerun_requested_any_state(pr) == "bot-rerun" \in LabelNames(pr)

\* pr_json["state"] != "closed" and "bot-rerun" in [lab["name"] ...]
rerun_requested(pr) ==
    pr["state"] # "closed" /\ "bot-rerun" \in LabelNames(pr)

\* first test of close_out_dirty_prs
dirty_open(pr) == pr["state"] # "closed" /\ pr["mergeable_state"] = "dirty"

\* second test of close_out_dirty_prs
dirty_open_non_draft(pr) == dirty_open(pr) /\ ~Get(pr, "draft", FALSE)

\* the author test with any() for all()
some_commit_by_bot(authors) == \E a \in authors : a \in CF_BOT_NAMES

\* all(c.as_dict()["commit"]["author"]["name"] in CF_BOT_NAMES for c in commits)
all_commits_by_bot(authors) == \A a \in authors : a \in CF_BOT_NAMES


delete_branch(pr) == Put(pr, "head", Put(pr["head"], "ref", NOT_A_BRANCH))

(* ------------------------------------------------------------------ *)
(* Calls, returns and the retry decorator                             *)
(* ------------------------------------------------------------------ *)

NoRet == [kind |-> "unset", val |-> <<>>]
RetNone == [kind |-> "None", val |-> <<>>]
RetRaise == [kind |-> "raise", val |-> <<>>]
RetFalse == [kind |-> "False", val |-> <<>>]
RetTrue == [kind |-> "True", val |-> <<>>]
\* an exception that is neither a RequestException nor a Timeout
RetRaised(exc) == [kind |-> "raise", val |-> <<exc>>]
RetRecord(v) == [kind |-> "record", val |-> v]

\* fork_seen: the outcome of the fork lookup of get_repo; create_fork,
\* rename, sleep: calls of get_repo and _sync_default_branches, recorded in
\* steps too; pushed_to: the owners of the repositories git push was aimed at
\* steps: the outcomes of the steps of push_repo, in the order they ran;
\* sent: the requests of lazy_update_pr_json; git: the git commands of
\* fetch_repo with their outcome; crash: exceptions other than request
\* exceptions
NoEff == [comment |-> 0, close |-> 0, delete |-> 0, net |-> 0,
          remote_add |-> 0, push |-> 0, create_pull |-> 0,
          create_label |-> 0, add_label |-> 0, steps |-> <<>>,
          sent |-> <<>>, git |-> <<>>, crash |-> 0,
          fork_seen |-> "unset", create_fork |-> 0, rename |-> 0,
          sleep |-> 0, pushed_to |-> {}]
NoPrev == "none"
NoGh == <<>>

Bump(e, k) == [e EXCEPT ![k] = @ + 1]

\* d.get(k, False) is truthy
HasTruthy(d, k) == k \in DOMAIN d /\ d[k] # None

\* the functions under @backoff.on_exception((RequestException, Timeout))
RetryWrapped == {"refresh_pr", "close_out_labels", "ensure_label_exists"}

StartOf(o) == CASE o = "refresh_pr" -> "rp_start"
                [] o = "close_out_labels" -> "col_start"
                [] o = "close_out_dirty_prs" -> "dp_start"
                [] o = "push_repo" -> "pr_start"
                [] o = "ensure_label_exists" -> "el_lookup"
                [] o = "label_pr" -> "el_lookup"

\* the passes made on the pull request so far: kept is TRUE while the caller
\* has taken every record a pass returned as the next cached record, and
\* deletes counts the branch-deletion pushes of those passes
NewChain == [kept |-> TRUE, deletes |-> 0]

\* the caller goes on without the record the last call returned
Dropped == ret.kind = "record" /\ ret.val # pr_json

Leave(c) == IF c.kept /\ Dropped THEN [kept |-> FALSE, deletes |-> 0] ELSE c

\* the answer of a dry run of o that has just ended, when the call that
\* begins now has the same record and meets the same remote pull request
DrySaid(o) ==
    IF op = o /\ dry_run /\ ret.kind \in {"None", "record"}
       /\ arg0 = pr_json /\ gh0 = gh
    THEN ret.kind ELSE "none"

\* a call begins: op(pr_json, dry_run)
Call(o) ==
    /\ pc = "idle"
    /\ op' = o
    /\ pc' = StartOf(o)
    /\ dry_run' \in BOOLEAN
    /\ tries' = 1
    /\ ret' = NoRet
    /\ arg0' = pr_json
    /\ gh0' = gh
    /\ eff' = NoEff
    /\ last_status' = 0
    /\ authors_seen' = {}
    /\ decided_on' = <<>>
    /\ input_from' = prev
    /\ prev' = NoPrev
    /\ pr_copy' = <<>>
    /\ chain' = Leave(chain)
    /\ dry_said' = DrySaid(o)
    /\ UNCHANGED <<client_vars, git_vars, other_vars, regro_remote, label_exists, gh,
                   fork_branch, pr_json,
                   faults>>

\* the call returns r
Return(r) == pc' = "idle" /\ ret' = r /\ tries' = tries /\ faults' = faults

\* the operation goes on to its step p
Goto(p) == pc' = p /\ ret' = ret /\ tries' = tries /\ faults' = faults

\* a RequestException / Timeout leaves a networked step: the decorator
\* calls the function again with the same arguments while the budget lasts,
\* then lets the exception through; an undecorated function raises at once
FailureIn(f) ==
    /\ faults < MaxFaults
    /\ faults' = faults + 1
    /\ IF f \in RetryWrapped /\ tries < MaxTries
       THEN pc' = StartOf(f) /\ tries' = tries + 1 /\ ret' = ret
       ELSE pc' = "idle" /\ ret' = RetRaise /\ tries' = tries

\* the failure of a step of the operation that was called
Failure == FailureIn(op)

\* a decorator that calls again whatever time has gone by
TimeoutIn_no_budget(f) ==
    /\ faults' = faults
    /\ IF f \in RetryWrapped
       THEN pc' = StartOf(f) /\ tries' = tries + 1 /\ ret' = ret
       ELSE pc' = "idle" /\ ret' = RetRaise /\ tries' = tries

\* a RequestException / Timeout while the network stays down: it can leave
\* every attempt, so the attempts are bounded by the budget of the
\* decorator (max_time=MAX_GITHUB_TIMEOUT) alone
TimeoutIn(f) ==
    /\ faults' = faults
    /\ IF f \in RetryWrapped /\ tries < MaxTries
       THEN pc' = StartOf(f) /\ tries' = tries + 1 /\ ret' = ret
       ELSE pc' = "idle" /\ ret' = RetRaise /\ tries' = tries

\* an error object of the hosted API treated like a request exception
Crash_retried == FailureIn(op)

\* a call of the client library raises an error object of the hosted API
\* (github3.exceptions.GitHubError: forbidden, unprocessable): it is not
\* in the exception tuple of the decorator and leaves the function at once
Crash ==
    /\ faults < MaxFaults
    /\ faults' = faults + 1
    /\ pc' = "idle"
    /\ ret' = RetRaised("GitHubError")
    /\ tries' = tries

\* the answers a fetch for the record pr can get
Fetches(pr) ==
    {Answer(lazy_update_request(repair_base(pr), FALSE), gh)}
    \cup (IF faults < MaxFaults THEN {ErrorAnswer(gh)} ELSE {})

\* an error status uses up one of the failures
Cost(r) == IF r.status_code = 500 THEN 1 ELSE 0

\* return, or go on, after the answer r to a fetch
ReturnAfter(r, v) ==
    pc' = "idle" /\ ret' = v /\ tries' = tries /\ faults' = faults + Cost(r)
GotoAfter(r, p) ==
    pc' = p /\ ret' = ret /\ tries' = tries /\ faults' = faults + Cost(r)

\* git push --delete of delete_branch: the exit code is not looked at
\* gh.me().login, the user the token authenticates, and the owner of the
\* upstream repositories
BotLogin == "regro-cf-autotick-bot"
UpstreamOwner == "conda-forge"

\* the owners a remote of the clone can point at: regro_remote is added by
\* push_repo with the URL of deploy_repo = gh_username + "/" + name; origin
\* is the fork of the bot or, without fork, upstream itself
RemoteOwners(remote) ==
    CASE remote = "regro_remote" -> {BotLogin}
      [] remote = "origin" -> {BotLogin, UpstreamOwner}
      [] OTHER -> {UpstreamOwner}

\* git push aimed at a repository of owner
PushedTo(e, owner) == [e EXCEPT !.pushed_to = @ \cup {owner}]

\* deploy_repo = gh.me().login + "/" + name; git push <url> --delete ref
PushDelete(ref) ==
    /\ fork_branch' = (fork_branch /\ ref # Branch)
    /\ eff' = PushedTo(Bump(Bump(eff, "delete"), "net"), BotLogin)
    /\ chain' = IF chain.kept THEN [chain EXCEPT !.deletes = @ + 1] ELSE chain

(* ------------------------------------------------------------------ *)
(* Client handles and the rate limit                                  *)
(* ------------------------------------------------------------------ *)

Threads == 1..MaxThreads

ClientKinds == {"github3", "github"}

\* the client the call of a function needs
KindOf(o) == IF o = "github_client" THEN "github" ELSE "github3"

\* a client handle is told from every other by the thread that constructed
\* it, its kind and the number of the construction
NoHandle == [by |-> 0, kind |-> "none", n |-> 0]

\* a worker thread that has called nothing yet: client holds the attribute
\* "client" of the thread's view of GITHUB3_CLIENT and of GITHUB_CLIENT
\* (NoHandle while the attribute is not set), got the handles its calls
\* returned, probes the probes of its last call, probe_ok whether its last
\* probe was answered and rate_then the rate limit at the time of that probe
NewWorker ==
    [pc |-> "idle", op |-> "none", ret |-> NoRet,
     client |-> [k \in ClientKinds |-> NoHandle],
     got |-> [k \in ClientKinds |-> {}],
     probes |-> 0, probe_ok |-> FALSE, rate_then |-> <<>>]

ClientsAtRest ==
    /\ rate = [remaining |-> MaxRemaining]
    /\ workers = [t \in Threads |-> NewWorker]
    /\ made = [t \in Threads |-> [k \in ClientKinds |-> 0]]

\* everything the worker threads leave alone
client_frame ==
    <<gh, fork_branch, pr_json, pr_copy, pc, op, dry_run, tries, ret,
      arg0, gh0, eff, last_status, authors_seen, decided_on, prev,
      input_from, faults, chain, regro_remote, label_exists, dry_said,
      git_vars, other_vars>>

\* GITHUB3_CLIENT and GITHUB_CLIENT shared by the threads
StoredClient_shared(t, k) ==
    LET ids == {workers[u].client[k] : u \in Threads} \ {NoHandle}
    IN  IF ids = {} THEN NoHandle ELSE CHOOSE i \in ids : TRUE

\* GITHUB3_CLIENT.client, GITHUB_CLIENT.client as thread t sees it:
\* both objects are threading.local()
StoredClient(t, k) == workers[t].client[k]

\* thread t calls the function o
WorkerCall(t, o) ==
    /\ workers[t].pc = "idle"
    /\ workers' = [workers EXCEPT ![t] =
           [@ EXCEPT !.pc = "client_check", !.op = o, !.ret = NoRet,
                     !.probes = 0]]
    /\ UNCHANGED <<rate, made, client_frame>>

CallGithub3Client(t) == WorkerCall(t, "github3_client")
CallGithubClient(t) == WorkerCall(t, "github_client")
CallIsGithubApiLimitReached(t) == WorkerCall(t, "is_github_api_limit_reached")
CallGetGithubApiRequestsLeft(t) == WorkerCall(t, "get_github_api_requests_left")

\* if not hasattr(GITHUB3_CLIENT, "client")
client_check(t) ==
    /\ workers[t].pc = "client_check"
    /\ workers' = [workers EXCEPT ![t].pc =
           IF StoredClient(t, KindOf(workers[t].op)) = NoHandle
           THEN "client_login" ELSE "client_return"]
    /\ UNCHANGED <<rate, made, client_frame>>

\* GITHUB3_CLIENT.client = github3.login(token=...): a new handle
client_login(t) ==
    /\ workers[t].pc = "client_login"
    /\ made' = [made EXCEPT ![t][KindOf(workers[t].op)] = @ + 1]
    /\ workers' = [workers EXCEPT ![t] =
           [@ EXCEPT !.pc = "client_return",
                     !.client[KindOf(workers[t].op)] =
                         [by |-> t, kind |-> KindOf(workers[t].op),
                          n |-> made'[t][KindOf(workers[t].op)]]]]
    /\ UNCHANGED <<rate, client_frame>>

\* return GITHUB3_CLIENT.client: to the caller of github3_client(), or to
\* the function that asked for the client
client_return(t) ==
    LET k == KindOf(workers[t].op)
        h == StoredClient(t, k)
    IN  /\ workers[t].pc = "client_return"
        /\ workers' = [workers EXCEPT ![t] =
               [@ EXCEPT !.got[k] = @ \cup {h},
                         !.pc = IF workers[t].op \in {"github3_client",
                                                      "github_client"}
                                THEN "idle" ELSE "probe",
                         !.ret = IF workers[t].op \in {"github3_client",
                                                       "github_client"}
                                 THEN [kind |-> "handle", val |-> h]
                                 ELSE @]]
        /\ UNCHANGED <<rate, made, client_frame>>

\* the answers gh.rate_limit() can get: the core resource, or an exception
Probes == {[ok |-> TRUE, core |-> rate], [ok |-> FALSE, core |-> <<>>]}

\* a probe that answers from what the thread saw last
ProbesOf_cached(t) ==
    IF workers[t].rate_then # <<>>
    THEN {[ok |-> TRUE, core |-> workers[t].rate_then]} ELSE Probes

\* the answers to the probe thread t makes now
ProbesOf(t) == Probes

\* is_github_api_limit_reached after the client: one gh.rate_limit(), True
\* when it raises or when remaining is 0, False otherwise
is_github_api_limit_reached(a) ==
    IF ~a.ok THEN [kind |-> "bool", val |-> TRUE]
    ELSE IF a.core.remaining = 0 THEN [kind |-> "bool", val |-> TRUE]
    ELSE [kind |-> "bool", val |-> FALSE]

\* get_github_api_requests_left after the client: remaining, None when the
\* probe raises
get_github_api_requests_left(a) ==
    IF ~a.ok THEN RetNone ELSE [kind |-> "int", val |-> a.core.remaining]

\* the probe of the rate limit and the return of the function
probe(t) ==
    /\ workers[t].pc = "probe"
    /\ \E a \in ProbesOf(t) :
          workers' = [workers EXCEPT ![t] =
              [@ EXCEPT !.pc = "idle",
                        !.probes = @ + 1,
                        !.probe_ok = a.ok,
                        !.rate_then = rate,
                        !.ret = IF workers[t].op = "is_github_api_limit_reached"
                                THEN is_github_api_limit_reached(a)
                                ELSE get_github_api_requests_left(a)]]
    /\ UNCHANGED <<rate, made, client_frame>>

\* a request of the bot made elsewhere uses up quota
RateUse ==
    /\ rate.remaining > 0
    /\ rate' = [remaining |-> rate.remaining - 1]
    /\ UNCHANGED <<workers, made, client_frame>>

\* the rate-limit window starts again
RateReset ==
    /\ rate.remaining < MaxRemaining
    /\ rate' = [remaining |-> MaxRemaining]
    /\ UNCHANGED <<workers, made, client_frame>>

(* ------------------------------------------------------------------ *)
(* fetch_repo                                                         *)
(* ------------------------------------------------------------------ *)

\* newest commit the upstream base branch gets
MaxTip == 2

\* a branch, or a remote-tracking ref, that does not exist
NoBranch == -1

\* a commit made in the clone that upstream does not have; the commits of
\* upstream are 1..MaxTip
LocalCommit == 0

\* the clone directory before git clone: dir is os.path.isdir(feedstock_dir),
\* upstream is TRUE while the remote "upstream" is registered, base and
\* target are the commits of the local base and target branches, ref is
\* the remote-tracking ref upstream/<base_branch>, origin_target the
\* remote-tracking ref origin/<branch> (the fork has the target branch from
\* an earlier push), head the branch checked out and fetched the tip of
\* upstream at the last git fetch
NoClone ==
    [dir |-> FALSE, upstream |-> FALSE, base |-> NoBranch,
     target |-> NoBranch, ref |-> NoBranch, origin_target |-> NoBranch,
     head |-> "none", fetched |-> NoBranch]

CloneAtRest == clone = NoClone /\ upstream_tip = 1

\* conda-forge/<name> exists with the default branch default; fork tells
\* whether <bot>/<name> is absent, created but not yet served ("pending") or
\* present, and fork_default is its default branch
SettledForge ==
    [upstream |-> TRUE, default |-> "main", fork |-> "present",
     fork_default |-> "main"]

\* no section of fold_log_lines entered, nothing printed
\* folded: LOG_LINES_FOLDED; github_actions: GITHUB_ACTIONS is "true";
\* sections: the titles of the fold_log_lines blocks being run, innermost
\* last; raising: an exception is travelling out of them; out: the lines
\* written
NoLogs == [folded |-> FALSE, github_actions |-> TRUE, sections |-> <<>>,
           raising |-> FALSE, out |-> <<>>]

OthersAtRest == forge = SettledForge /\ pr_info = <<>> /\ logs = NoLogs

\* everything fetch_repo leaves alone
fetch_frame ==
    <<gh, fork_branch, pr_json, pr_copy, op, dry_run, tries, arg0, gh0,
      last_status, authors_seen, decided_on, prev, input_from, faults,
      chain, regro_remote, label_exists, dry_said, client_vars,
      upstream_tip, other_vars>>

\* subprocess.run(["git", ...]) is logged with its outcome
Git(cmd, ok) == eff' = [eff EXCEPT !.git = Append(@, [cmd |-> cmd, ok |-> ok])]

\* _run_git_cmd has check=True: a non-zero exit raises CalledProcessError,
\* which leaves fetch_repo unless the call is in a try block
GitRaises(cmd) ==
    /\ Git(cmd, FALSE)
    /\ pc' = "idle"
    /\ ret' = RetRaised("CalledProcessError")
    /\ clone' = clone

\* the command cmd succeeds: the clone becomes c, fetch_repo goes on at p
\* where fetch_repo returns to: its caller get_repo, or the top level
FetchExit == IF op = "get_repo" THEN "gr_return" ELSE "idle"

GitDone(cmd, c, p) ==
    /\ Git(cmd, TRUE)
    /\ clone' = c
    /\ pc' = IF p = "idle" THEN FetchExit ELSE p
    /\ ret' = IF p = "idle" THEN RetTrue ELSE ret

\* the command cmd fails inside a try block: fetch_repo goes on at p
GitCaught(cmd, p) ==
    /\ Git(cmd, FALSE)
    /\ clone' = clone
    /\ pc' = p
    /\ ret' = ret

CallFetchRepo ==
    /\ pc = "idle"
    /\ op' = "fetch_repo"
    /\ pc' = "fr_start"
    /\ ret' = NoRet
    /\ eff' = NoEff
    /\ arg0' = clone
    /\ UNCHANGED <<gh, fork_branch, pr_json, pr_copy, dry_run, tries,
                   gh0, last_status, authors_seen, decided_on, prev,
                   input_from, faults, chain, regro_remote, label_exists,
                   dry_said, client_vars, git_vars, other_vars>>

\* if not os.path.isdir(feedstock_dir)
fr_start ==
    /\ pc = "fr_start"
    /\ pc' = IF clone.dir THEN "fr_reset_head" ELSE "fr_clone"
    /\ UNCHANGED <<ret, eff, clone, fetch_frame>>

\* what git clone of origin can leave: the fork has the base branch at some
\* commit, or does not have it; the fork has the target branch, at a
\* commit of an earlier push, or does not have it
Cloned ==
    {[NoClone EXCEPT !.dir = TRUE, !.base = b, !.head = "origin",
                     !.origin_target = o] :
        b \in {NoBranch} \cup (0..upstream_tip),
        o \in {NoBranch, LocalCommit}}

\* git clone -q origin feedstock_dir; a non-zero exit: return False
fr_clone ==
    /\ pc = "fr_clone"
    /\ \/ \E c \in Cloned : GitDone("clone", c, "fr_remote_add")
       \/ /\ Git("clone", FALSE)
          /\ pc' = FetchExit
          /\ ret' = RetFalse
          /\ clone' = clone
    /\ UNCHANGED fetch_frame

\* git reset --hard HEAD, when the directory was there
fr_reset_head ==
    /\ pc = "fr_reset_head"
    /\ \/ GitDone("reset_head", clone, "fr_remote_add")
       \/ GitRaises("reset_head")
    /\ UNCHANGED fetch_frame

\* git remote add upstream <upstream> with the failure swallowed
fr_remote_add_raises ==
    /\ pc = "fr_remote_add"
    /\ \/ /\ ~clone.upstream
          /\ GitDone("remote_add", [clone EXCEPT !.upstream = TRUE], "fr_fetch")
       \/ GitRaises("remote_add")
    /\ UNCHANGED fetch_frame

\* git remote add upstream <upstream>: CalledProcessError is passed over
fr_remote_add ==
    /\ pc = "fr_remote_add"
    /\ \/ /\ ~clone.upstream
          /\ GitDone("remote_add", [clone EXCEPT !.upstream = TRUE], "fr_fetch")
       \/ GitCaught("remote_add", "fr_fetch")
    /\ UNCHANGED fetch_frame

\* git fetch --all: the refs of the registered remotes are brought up
fr_fetch ==
    /\ pc = "fr_fetch"
    /\ \/ GitDone("fetch",
                  [clone EXCEPT !.ref = IF clone.upstream THEN upstream_tip
                                        ELSE @,
                                !.fetched = upstream_tip],
                  "fr_branch_list")
       \/ GitRaises("fetch")
    /\ UNCHANGED fetch_frame

\* git branch --list <base_branch>: its output tells whether the branch is
\* there
fr_branch_list ==
    /\ pc = "fr_branch_list"
    /\ \/ GitDone("branch_list", clone,
                  IF clone.base # NoBranch THEN "fr_checkout_base"
                  ELSE "fr_checkout_track")
       \/ GitRaises("branch_list")
    /\ UNCHANGED fetch_frame

\* git checkout <base_branch>
fr_checkout_base ==
    /\ pc = "fr_checkout_base"
    /\ \/ GitDone("checkout_base", [clone EXCEPT !.head = "base"],
                  "fr_reset_upstream")
       \/ GitRaises("checkout_base")
    /\ UNCHANGED fetch_frame

\* git checkout --track upstream/<base_branch>, in a try block
fr_checkout_track ==
    /\ pc = "fr_checkout_track"
    /\ \/ /\ clone.ref # NoBranch
          /\ GitDone("checkout_track",
                     [clone EXCEPT !.base = clone.ref, !.head = "base"],
                     "fr_reset_upstream")
       \/ GitCaught("checkout_track", "fr_checkout_new")
    /\ UNCHANGED fetch_frame

\* git checkout -b <base_branch> upstream/<base_branch>
fr_checkout_new ==
    /\ pc = "fr_checkout_new"
    /\ \/ /\ clone.ref # NoBranch
          /\ GitDone("checkout_new",
                     [clone EXCEPT !.base = clone.ref, !.head = "base"],
                     "fr_reset_upstream")
       \/ GitRaises("checkout_new")
    /\ UNCHANGED fetch_frame

\* fetch_repo without the reset to the upstream ref
fr_reset_upstream_skipped ==
    /\ pc = "fr_reset_upstream"
    /\ \/ /\ clone.ref # NoBranch
          /\ GitDone("reset_upstream", clone, "fr_checkout_target")
       \/ GitRaises("reset_upstream")
    /\ UNCHANGED fetch_frame

\* git reset --hard upstream/<base_branch>, on the base branch
fr_reset_upstream ==
    /\ pc = "fr_reset_upstream"
    /\ \/ /\ clone.ref # NoBranch
          /\ GitDone("reset_upstream", [clone EXCEPT !.base = clone.ref],
                     "fr_checkout_target")
       \/ GitRaises("reset_upstream")
    /\ UNCHANGED fetch_frame

\* git checkout <branch>, in a try block: the local branch is checked
\* out; when there is none but origin has the branch, git creates the local
\* branch from origin/<branch> and the command succeeds as well
fr_checkout_target ==
    /\ pc = "fr_checkout_target"
    /\ \/ /\ clone.target # NoBranch
          /\ GitDone("checkout_target", [clone EXCEPT !.head = "target"],
                     "idle")
       \/ /\ clone.target = NoBranch
          /\ clone.origin_target # NoBranch
          /\ GitDone("checkout_target",
                     [clone EXCEPT !.target = clone.origin_target,
                                   !.head = "target"],
                     "idle")
       \/ GitCaught("checkout_target", "fr_create_target")
    /\ UNCHANGED fetch_frame

\* git checkout -b <branch> <base_branch>, then return True
fr_create_target ==
    /\ pc = "fr_create_target"
    /\ \/ /\ clone.target = NoBranch
          /\ GitDone("create_target",
                     [clone EXCEPT !.target = clone.base, !.head = "target"],
                     "idle")
       \/ GitRaises("create_target")
    /\ UNCHANGED fetch_frame

\* upstream gets a new commit on the base branch
UpstreamAdvance ==
    /\ upstream_tip < MaxTip
    /\ upstream_tip' = upstream_tip + 1
    /\ UNCHANGED <<clone, pc, ret, eff, gh, fork_branch, pr_json, pr_copy, op,
                   dry_run, tries, arg0, gh0, last_status, authors_seen,
                   decided_on, prev, input_from, faults, chain, regro_remote,
                   label_exists, dry_said, client_vars, other_vars>>

\* between two calls a commit is made on the local base branch; what the
\* last call returned is no longer about this clone
CommitOnBase ==
    /\ pc = "idle"
    /\ clone.base \notin {NoBranch, LocalCommit}
    /\ clone' = [clone EXCEPT !.base = LocalCommit]
    /\ ret' = NoRet
    /\ eff' = NoEff
    /\ UNCHANGED <<pc, fetch_frame>>

\* between two calls the caller removes the feedstock directory
RemoveFeedstockDir ==
    /\ pc = "idle"
    /\ clone.dir
    /\ clone' = NoClone
    /\ ret' = NoRet
    /\ eff' = NoEff
    /\ UNCHANGED <<pc, fetch_frame>>

(* ------------------------------------------------------------------ *)
(* refresh_pr                                                         *)
(* ------------------------------------------------------------------ *)

CallRefreshPr == Call("refresh_pr")

\* refresh_pr fetching whatever the cached state is
rp_start_always ==
    /\ pc = "rp_start"
    /\ IF dry_run
       THEN Return(RetRecord(pr_json)) /\ pr_copy' = pr_copy
       ELSE pr_copy' = pr_json /\ Goto("rp_fetch")
    /\ UNCHANGED <<client_vars, git_vars, other_vars, chain, regro_remote, label_exists, dry_said,
                   gh, fork_branch, pr_json, op, dry_run, arg0, gh0, eff,
                   last_status, authors_seen, decided_on, prev, input_from>>

\* the test of the cached state; the dry-run return; the deep copy
rp_start ==
    /\ pc = "rp_start"
    /\ IF pr_json["state"] # "closed"
       THEN IF dry_run
            THEN Return(RetRecord(pr_json)) /\ pr_copy' = pr_copy
            ELSE pr_copy' = pr_json /\ Goto("rp_fetch")
       ELSE Return(RetNone) /\ pr_copy' = pr_copy
    /\ UNCHANGED <<client_vars, git_vars, other_vars, chain, regro_remote, label_exists, dry_said,
                   gh, fork_branch, pr_json, op, dry_run, arg0, gh0, eff,
                   last_status, authors_seen, decided_on, prev, input_from>>

\* rp_fetch deleting the branch of any closed pull request
rp_fetch_any_closed ==
    /\ pc = "rp_fetch"
    /\ eff' = Bump(eff, "net")
    /\ \/ /\ Failure
          /\ pr_copy' = repair_base(pr_copy)
          /\ last_status' = last_status
       \/ \E r \in Fetches(pr_copy) :
            LET new == lazy_update_pr_json(pr_copy, r)
            IN  /\ pr_copy' = new
                /\ last_status' = r.status_code
                /\ IF new["state"] = "closed"
                   THEN GotoAfter(r, "rp_delete")
                   ELSE ReturnAfter(r, RetRecord(new))
    /\ UNCHANGED <<client_vars, git_vars, other_vars, chain, regro_remote, label_exists, dry_said,
                   gh, fork_branch, pr_json, op, dry_run, arg0, gh0,
                   authors_seen, decided_on, prev, input_from>>

\* lazy_update_pr_json(copy.deepcopy(pr_json)) and the test for a merge
rp_fetch ==
    /\ pc = "rp_fetch"
    /\ eff' = Bump(eff, "net")
    /\ \/ /\ Failure
          /\ pr_copy' = repair_base(pr_copy)
          /\ last_status' = last_status
       \/ \E r \in Fetches(pr_copy) :
            LET new == lazy_update_pr_json(pr_copy, r)
            IN  /\ pr_copy' = new
                /\ last_status' = r.status_code
                /\ IF new["state"] = "closed" /\ HasTruthy(new, "merged_at")
                   THEN GotoAfter(r, "rp_delete")
                   ELSE ReturnAfter(r, RetRecord(new))
    /\ UNCHANGED <<client_vars, git_vars, other_vars, chain, regro_remote, label_exists, dry_said,
                   gh, fork_branch, pr_json, op, dry_run, arg0, gh0,
                   authors_seen, decided_on, prev, input_from>>

\* delete_branch(pr_json) on the copy, then return dict(pr_json)
\* the sentinel is written into the record of the caller
rp_delete_on_original ==
    /\ pc = "rp_delete"
    /\ \/ /\ Failure
          /\ eff' = Bump(eff, "net")
          /\ UNCHANGED <<pr_copy, pr_json, fork_branch, chain>>
       \/ /\ PushDelete(pr_copy["head"]["ref"])
          /\ pr_copy' = delete_branch(pr_copy)
          /\ pr_json' = delete_branch(pr_json)
          /\ Return(RetRecord(pr_copy'))
    /\ UNCHANGED <<client_vars, git_vars, other_vars, regro_remote, label_exists, dry_said,
                   gh, op, dry_run, arg0, gh0, last_status,
                   authors_seen, decided_on, prev, input_from>>

rp_delete ==
    /\ pc = "rp_delete"
    /\ \/ /\ Failure
          /\ eff' = Bump(eff, "net")
          /\ UNCHANGED <<pr_copy, fork_branch, chain>>
       \/ /\ PushDelete(pr_copy["head"]["ref"])
          /\ pr_copy' = delete_branch(pr_copy)
          /\ Return(RetRecord(pr_copy'))
    /\ UNCHANGED <<client_vars, git_vars, other_vars, regro_remote, label_exists, dry_said,
                   gh, pr_json, op, dry_run, arg0, gh0, last_status,
                   authors_seen, decided_on, prev, input_from>>


(* ------------------------------------------------------------------ *)
(* close_out_labels                                                   *)
(* ------------------------------------------------------------------ *)

CallCloseOutLabels == Call("close_out_labels")

\* first test; the refresh is skipped in a dry run
col_start ==
    /\ pc = "col_start"
    /\ pc' = IF rerun_requested(pr_json) /\ ~dry_run
             THEN "col_fetch1" ELSE "col_decide"
    /\ UNCHANGED <<client_vars, git_vars, other_vars, chain, regro_remote, label_exists, dry_said,
                   gh, fork_branch, pr_json, pr_copy, op, dry_run, tries, ret, faults,
                   arg0, gh0, eff, last_status, authors_seen, decided_on,
                   prev, input_from>>

\* pr_json = lazy_update_pr_json(pr_json), in place
col_fetch1 ==
    /\ pc = "col_fetch1"
    /\ eff' = Bump(eff, "net")
    /\ \/ /\ Failure
          /\ pr_json' = repair_base(pr_json)
          /\ last_status' = last_status
       \/ \E r \in Fetches(pr_json) :
            /\ pr_json' = lazy_update_pr_json(pr_json, r)
            /\ last_status' = r.status_code
            /\ GotoAfter(r, "col_decide")
    /\ UNCHANGED <<client_vars, git_vars, other_vars, chain, regro_remote, label_exists, dry_said,
                   gh, fork_branch, pr_copy, op, dry_run, arg0, gh0,
                   authors_seen, decided_on, prev, input_from>>

\* the second test looking at the record as it was passed in
col_decide_cached ==
    /\ pc = "col_decide"
    /\ decided_on' = arg0
    /\ IF rerun_requested(arg0)
       THEN IF dry_run
            THEN Return(RetRecord(pr_json))
            ELSE Goto("col_comment")
       ELSE Return(RetNone)
    /\ UNCHANGED <<client_vars, git_vars, other_vars, chain, regro_remote, label_exists, dry_said,
                   gh, fork_branch, pr_json, pr_copy, op, dry_run, arg0, gh0,
                   eff, last_status, authors_seen, prev, input_from>>

\* the second test answering none in every dry run
col_decide_dry_none ==
    /\ pc = "col_decide"
    /\ decided_on' = pr_json
    /\ IF rerun_requested(pr_json) /\ ~dry_run
       THEN Goto("col_comment")
       ELSE Return(RetNone)
    /\ UNCHANGED <<client_vars, git_vars, other_vars, chain, regro_remote, label_exists, dry_said,
                   gh, fork_branch, pr_json, pr_copy, op, dry_run, arg0, gh0,
                   eff, last_status, authors_seen, prev, input_from>>

\* second test, on the record as it is now
col_decide ==
    /\ pc = "col_decide"
    /\ decided_on' = pr_json
    /\ IF rerun_requested(pr_json)
       THEN IF dry_run
            THEN Return(RetRecord(pr_json))
            ELSE Goto("col_comment")
       ELSE Return(RetNone)
    /\ UNCHANGED <<client_vars, git_vars, other_vars, chain, regro_remote, label_exists, dry_said,
                   gh, fork_branch, pr_json, pr_copy, op, dry_run, arg0, gh0,
                   eff, last_status, authors_seen, prev, input_from>>

\* get_pr_obj_from_pr_json and pr_obj.create_comment
col_comment ==
    /\ pc = "col_comment"
    /\ \/ Failure /\ eff' = Bump(eff, "net")
       \/ Crash /\ eff' = Bump(Bump(eff, "net"), "crash")
       \/ /\ eff' = Bump(Bump(eff, "comment"), "net")
          /\ Goto("col_close")
    /\ UNCHANGED <<client_vars, git_vars, other_vars, chain, regro_remote, label_exists, dry_said,
                   gh, fork_branch, pr_json, pr_copy, op, dry_run, arg0, gh0,
                   last_status, authors_seen, decided_on, prev, input_from>>

\* pr_obj.close()
col_close ==
    /\ pc = "col_close"
    /\ \/ Failure /\ eff' = Bump(eff, "net") /\ gh' = gh
       \/ Crash /\ eff' = Bump(Bump(eff, "net"), "crash") /\ gh' = gh
       \/ /\ eff' = Bump(Bump(eff, "close"), "net")
          /\ gh' = [gh EXCEPT !.state = "closed"]
          /\ Goto("col_delete")
    /\ UNCHANGED <<client_vars, git_vars, other_vars, chain, regro_remote, label_exists, dry_said,
                   fork_branch, pr_json, pr_copy, op, dry_run, arg0, gh0,
                   last_status, authors_seen, decided_on, prev, input_from>>

\* delete_branch(pr_json), in place
col_delete ==
    /\ pc = "col_delete"
    /\ \/ /\ Failure
          /\ eff' = Bump(eff, "net")
          /\ UNCHANGED <<pr_json, fork_branch, chain>>
       \/ /\ PushDelete(pr_json["head"]["ref"])
          /\ pr_json' = delete_branch(pr_json)
          /\ Goto("col_fetch2")
    /\ UNCHANGED <<client_vars, git_vars, other_vars, regro_remote, label_exists, dry_said,
                   gh, pr_copy, op, dry_run, arg0, gh0, last_status,
                   authors_seen, decided_on, prev, input_from>>

\* pr_json = lazy_update_pr_json(pr_json); return dict(pr_json)
col_fetch2 ==
    /\ pc = "col_fetch2"
    /\ eff' = Bump(eff, "net")
    /\ \/ /\ Failure
          /\ pr_json' = repair_base(pr_json)
          /\ last_status' = last_status
       \/ \E r \in Fetches(pr_json) :
            /\ pr_json' = lazy_update_pr_json(pr_json, r)
            /\ last_status' = r.status_code
            /\ ReturnAfter(r, RetRecord(pr_json'))
    /\ UNCHANGED <<client_vars, git_vars, other_vars, chain, regro_remote, label_exists, dry_said,
                   gh, fork_branch, pr_copy, op, dry_run, arg0, gh0,
                   authors_seen, decided_on, prev, input_from>>

(* ------------------------------------------------------------------ *)
(* close_out_dirty_prs                                                *)
(* ------------------------------------------------------------------ *)

CallCloseOutDirtyPrs == Call("close_out_dirty_prs")

\* first test; the refresh is skipped in a dry run
dp_start ==
    /\ pc = "dp_start"
    /\ pc' = IF dirty_open(pr_json) /\ ~dry_run
             THEN "dp_fetch1" ELSE "dp_decide"
    /\ UNCHANGED <<client_vars, git_vars, other_vars, chain, regro_remote, label_exists, dry_said,
                   gh, fork_branch, pr_json, pr_copy, op, dry_run, tries, ret, faults,
                   arg0, gh0, eff, last_status, authors_seen, decided_on,
                   prev, input_from>>

\* pr_json = lazy_update_pr_json(pr_json), in place
dp_fetch1 ==
    /\ pc = "dp_fetch1"
    /\ eff' = Bump(eff, "net")
    /\ \/ /\ Failure
          /\ pr_json' = repair_base(pr_json)
          /\ last_status' = last_status
       \/ \E r \in Fetches(pr_json) :
            /\ pr_json' = lazy_update_pr_json(pr_json, r)
            /\ last_status' = r.status_code
            /\ GotoAfter(r, "dp_decide")
    /\ UNCHANGED <<client_vars, git_vars, other_vars, chain, regro_remote, label_exists, dry_said,
                   gh, fork_branch, pr_copy, op, dry_run, arg0, gh0,
                   authors_seen, decided_on, prev, input_from>>

\* second test; d = dict(pr_json); the dry-run return
dp_decide ==
    /\ pc = "dp_decide"
    /\ decided_on' = pr_json
    /\ IF dirty_open_non_draft(pr_json)
       THEN IF dry_run
            THEN Return(RetRecord(pr_json))
            ELSE Goto("dp_commits")
       ELSE Return(RetNone)
    /\ UNCHANGED <<client_vars, git_vars, other_vars, chain, regro_remote, label_exists, dry_said,
                   gh, fork_branch, pr_json, pr_copy, op, dry_run, arg0, gh0,
                   eff, last_status, authors_seen, prev, input_from>>

\* dp_commits returning None when a commit is not the bot's
dp_commits_none ==
    /\ pc = "dp_commits"
    /\ eff' = Bump(eff, "net")
    /\ \/ Failure /\ authors_seen' = authors_seen
       \/ /\ authors_seen' = gh.authors
          /\ IF all_commits_by_bot(gh.authors)
             THEN Goto("dp_comment")
             ELSE Return(RetNone)
    /\ UNCHANGED <<client_vars, git_vars, other_vars, chain, regro_remote, label_exists, dry_said,
                   gh, fork_branch, pr_json, pr_copy, op, dry_run, arg0, gh0,
                   last_status, decided_on, prev, input_from>>

\* get_pr_obj_from_pr_json, pr_obj.commits() and the test of the authors;
\* with a commit that is not the bot's the function falls through to
\* "return d", d being the dict taken before
dp_commits ==
    /\ pc = "dp_commits"
    /\ eff' = Bump(eff, "net")
    /\ \/ Failure /\ authors_seen' = authors_seen
       \/ /\ authors_seen' = gh.authors
          /\ IF all_commits_by_bot(gh.authors)
             THEN Goto("dp_comment")
             ELSE Return(RetRecord(pr_json))
    /\ UNCHANGED <<client_vars, git_vars, other_vars, chain, regro_remote, label_exists, dry_said,
                   gh, fork_branch, pr_json, pr_copy, op, dry_run, arg0, gh0,
                   last_status, decided_on, prev, input_from>>

\* pr_obj.create_comment
dp_comment ==
    /\ pc = "dp_comment"
    /\ \/ Failure /\ eff' = Bump(eff, "net")
       \/ /\ eff' = Bump(Bump(eff, "comment"), "net")
          /\ Goto("dp_close")
    /\ UNCHANGED <<client_vars, git_vars, other_vars, chain, regro_remote, label_exists, dry_said,
                   gh, fork_branch, pr_json, pr_copy, op, dry_run, arg0, gh0,
                   last_status, authors_seen, decided_on, prev, input_from>>

\* pr_obj.close()
dp_close ==
    /\ pc = "dp_close"
    /\ \/ Failure /\ eff' = Bump(eff, "net") /\ gh' = gh
       \/ /\ eff' = Bump(Bump(eff, "close"), "net")
          /\ gh' = [gh EXCEPT !.state = "closed"]
          /\ Goto("dp_delete")
    /\ UNCHANGED <<client_vars, git_vars, other_vars, chain, regro_remote, label_exists, dry_said,
                   fork_branch, pr_json, pr_copy, op, dry_run, arg0, gh0,
                   last_status, authors_seen, decided_on, prev, input_from>>

\* delete_branch(pr_json), in place
dp_delete ==
    /\ pc = "dp_delete"
    /\ \/ /\ Failure
          /\ eff' = Bump(eff, "net")
          /\ UNCHANGED <<pr_json, fork_branch, chain>>
       \/ /\ PushDelete(pr_json["head"]["ref"])
          /\ pr_json' = delete_branch(pr_json)
          /\ Goto("dp_fetch2")
    /\ UNCHANGED <<client_vars, git_vars, other_vars, regro_remote, label_exists, dry_said,
                   gh, pr_copy, op, dry_run, arg0, gh0, last_status,
                   authors_seen, decided_on, prev, input_from>>

\* d["labels"].append(BOT_RERUN_LABEL) left out
append_rerun_skip(pr) == pr

\* d = dict(pr_json); d["labels"].append(BOT_RERUN_LABEL).  dict() copies
\* the top level only: the list appended to is the list of pr_json too
append_rerun(pr) == Put(pr, "labels", Append(pr["labels"], BOT_RERUN_LABEL))

\* dp_fetch2 adding the label to the pull request on the hosted API too
dp_fetch2_labels_remote ==
    /\ pc = "dp_fetch2"
    /\ \/ /\ Failure
          /\ eff' = Bump(eff, "net")
          /\ pr_json' = repair_base(pr_json)
          /\ last_status' = last_status
          /\ gh' = gh
       \/ \E r \in Fetches(pr_json) :
            LET new == lazy_update_pr_json(pr_json, r)
            IN  /\ last_status' = r.status_code
                /\ eff' = Bump(Bump(eff, "net"), "add_label")
                /\ gh' = [gh EXCEPT !.labels = Append(@, RerunLabelObj)]
                /\ IF "labels" \in DOMAIN new
                   THEN pr_json' = append_rerun(new)
                        /\ ReturnAfter(r, RetRecord(pr_json'))
                   ELSE pr_json' = new
                        /\ ReturnAfter(r, RetRaised("KeyError"))
    /\ UNCHANGED <<client_vars, git_vars, other_vars, chain, regro_remote, label_exists, dry_said,
                   fork_branch, pr_copy, op, dry_run, arg0, gh0,
                   authors_seen, decided_on, prev, input_from>>

\* pr_json = lazy_update_pr_json(pr_json); the label; return d
dp_fetch2 ==
    /\ pc = "dp_fetch2"
    /\ eff' = Bump(eff, "net")
    /\ \/ /\ Failure
          /\ pr_json' = repair_base(pr_json)
          /\ last_status' = last_status
       \/ \E r \in Fetches(pr_json) :
            LET new == lazy_update_pr_json(pr_json, r)
            IN  /\ last_status' = r.status_code
                /\ IF "labels" \in DOMAIN new
                   THEN pr_json' = append_rerun(new)
                        /\ ReturnAfter(r, RetRecord(pr_json'))
                   ELSE pr_json' = new
                        /\ ReturnAfter(r, RetRaised("KeyError"))
    /\ UNCHANGED <<client_vars, git_vars, other_vars, chain, regro_remote, label_exists, dry_said,
                   gh, fork_branch, pr_copy, op, dry_run, arg0, gh0,
                   authors_seen, decided_on, prev, input_from>>

(* ------------------------------------------------------------------ *)
(* push_repo                                                          *)
(* ------------------------------------------------------------------ *)

\* the pull request repo.create_pull opens
NewPull(g) ==
    [state |-> "open", merged_at |-> None, labels |-> <<>>,
     mergeable_state |-> "clean", draft |-> g.draft, authors |-> g.authors]

\* one more step of push_repo has run, with its outcome
Step(e, name, ok) ==
    [Bump(e, name) EXCEPT !.steps = Append(@, [step |-> name, ok |-> ok])]

\* push_repo(..., dry_run).  The bot publishes again once its earlier pull
\* request is closed.
CallPushRepo == gh.state = "closed" /\ Call("push_repo")

\* push_repo making its calls in a dry run too
pr_start_wet ==
    /\ pc = "pr_start"
    /\ eff' = Bump(eff, "net")
    /\ \/ Failure
       \/ Goto("pr_remote_add")
    /\ UNCHANGED <<client_vars, git_vars, other_vars, chain, regro_remote, label_exists, dry_said,
                   gh, fork_branch, pr_json, pr_copy, op, dry_run, arg0, gh0,
                   last_status, authors_seen, decided_on, prev, input_from>>

\* github3_client().me().login and the two tests of dry_run: a dry run
\* prints twice and returns False
pr_start ==
    /\ pc = "pr_start"
    /\ eff' = Bump(eff, "net")
    /\ \/ Failure
       \/ IF dry_run THEN Return(RetFalse) ELSE Goto("pr_remote_add")
    /\ UNCHANGED <<client_vars, git_vars, other_vars, chain, regro_remote, label_exists, dry_said,
                   gh, fork_branch, pr_json, pr_copy, op, dry_run, arg0, gh0,
                   last_status, authors_seen, decided_on, prev, input_from>>

\* exit codes of "git remote add regro_remote <url>": git refuses a name that
\* is taken (3) and can fail for other reasons in a clone without it (128)
RemoteAddCodes == IF regro_remote THEN {3} ELSE {0, 128}

\* the step going on to the push whatever the exit code
pr_remote_add_unchecked ==
    /\ pc = "pr_remote_add"
    /\ \E ecode \in RemoteAddCodes :
         /\ eff' = Step(eff, "remote_add", ecode = 0)
         /\ regro_remote' = (regro_remote \/ ecode = 0)
         /\ Goto("pr_push")
    /\ UNCHANGED <<client_vars, git_vars, other_vars, chain, label_exists, dry_said,
                   gh, fork_branch, pr_json, pr_copy, op, dry_run, arg0, gh0,
                   last_status, authors_seen, decided_on, prev, input_from>>

\* doctr_run(["git", "remote", "add", "regro_remote", ...]) and the test of
\* its exit code
pr_remote_add ==
    /\ pc = "pr_remote_add"
    /\ \E ecode \in RemoteAddCodes :
         /\ eff' = Step(eff, "remote_add", ecode = 0)
         /\ regro_remote' = (regro_remote \/ ecode = 0)
         /\ IF ecode # 0 THEN Return(RetFalse) ELSE Goto("pr_push")
    /\ UNCHANGED <<client_vars, git_vars, other_vars, chain, label_exists, dry_said,
                   gh, fork_branch, pr_json, pr_copy, op, dry_run, arg0, gh0,
                   last_status, authors_seen, decided_on, prev, input_from>>

\* doctr_run(["git", "push", "--set-upstream", "regro_remote", branch]) and
\* the test of its exit code
\* the branch is pushed to origin
pr_push_to_origin ==
    /\ pc = "pr_push"
    /\ \E ecode \in {0, 1}, owner \in RemoteOwners("origin") :
         /\ eff' = PushedTo(Bump(Step(eff, "push", ecode = 0), "net"), owner)
         /\ fork_branch' = (fork_branch \/ ecode = 0)
         /\ IF ecode # 0 THEN Return(RetFalse) ELSE Goto("pr_create_pull")
    /\ UNCHANGED <<client_vars, git_vars, other_vars, chain, regro_remote, label_exists, dry_said,
                   gh, pr_json, pr_copy, op, dry_run, arg0, gh0,
                   last_status, authors_seen, decided_on, prev, input_from>>

pr_push ==
    /\ pc = "pr_push"
    /\ \E ecode \in {0, 1}, owner \in RemoteOwners("regro_remote") :
         /\ eff' = PushedTo(Bump(Step(eff, "push", ecode = 0), "net"), owner)
         /\ fork_branch' = (fork_branch \/ ecode = 0)
         /\ IF ecode # 0 THEN Return(RetFalse) ELSE Goto("pr_create_pull")
    /\ UNCHANGED <<client_vars, git_vars, other_vars, chain, regro_remote, label_exists, dry_said,
                   gh, pr_json, pr_copy, op, dry_run, arg0, gh0,
                   last_status, authors_seen, decided_on, prev, input_from>>

\* repo.create_pull, the test for None, and trim_pr_json_keys(pr.as_dict())
pr_create_pull ==
    /\ pc = "pr_create_pull"
    /\ \/ /\ Failure
          /\ eff' = Bump(eff, "net")
          /\ UNCHANGED <<gh, chain>>
       \/ /\ eff' = Bump(Step(eff, "create_pull", FALSE), "net")
          /\ Return(RetFalse)
          /\ UNCHANGED <<gh, chain>>
       \/ /\ eff' = Bump(Step(eff, "create_pull", TRUE), "net")
          /\ gh' = NewPull(gh)
          /\ chain' = NewChain
          /\ Return(RetRecord(trim_pr_json_keys(AsDict(gh'), AsDict(gh'))))
    /\ UNCHANGED <<client_vars, git_vars, other_vars, regro_remote, label_exists, dry_said,
                   fork_branch, pr_json, pr_copy, op, dry_run, arg0, gh0,
                   last_status, authors_seen, decided_on, prev, input_from>>

(* ------------------------------------------------------------------ *)
(* ensure_label_exists and label_pr                                   *)
(* ------------------------------------------------------------------ *)

\* the label_dict argument of both
LabelDict == OtherLabelObj

HasLabel(g, name) == \E i \in 1..Len(g.labels) : g.labels[i].name = name

CallEnsureLabelExists == Call("ensure_label_exists")

\* label_pr begins with ensure_label_exists(repo, label_dict, dry_run)
CallLabelPr == Call("label_pr")

\* what follows ensure_label_exists: its caller label_pr, or the return
AfterEnsure ==
    IF op = "label_pr" THEN Goto("lp_add") ELSE Return(RetNone)

\* the print of a dry run, then repo.label(label_dict["name"]) in a dry run
\* and in a real run alike
el_lookup ==
    /\ pc = "el_lookup"
    /\ eff' = Bump(eff, "net")
    /\ \/ TimeoutIn("ensure_label_exists")
       \/ IF label_exists THEN AfterEnsure ELSE Goto("el_create")
    /\ UNCHANGED <<client_vars, git_vars, other_vars, chain, regro_remote, label_exists, dry_said,
                   gh, fork_branch, pr_json, pr_copy, op, dry_run, arg0, gh0,
                   last_status, authors_seen, decided_on, prev, input_from>>

\* except github3.exceptions.NotFoundError: repo.create_label(**label_dict)
el_create ==
    /\ pc = "el_create"
    /\ \/ /\ TimeoutIn("ensure_label_exists")
          /\ eff' = Bump(eff, "net")
          /\ label_exists' = label_exists
       \/ /\ eff' = Bump(Bump(eff, "create_label"), "net")
          /\ label_exists' = TRUE
          /\ AfterEnsure
    /\ UNCHANGED <<client_vars, git_vars, other_vars, chain, regro_remote, dry_said,
                   gh, fork_branch, pr_json, pr_copy, op, dry_run, arg0, gh0,
                   last_status, authors_seen, decided_on, prev, input_from>>

\* the label added to the labels of the pull request, once
AddLabel(g, lab) ==
    IF HasLabel(g, lab.name) THEN g ELSE [g EXCEPT !.labels = Append(@, lab)]

\* the rest of label_pr: repo.issue(pr_json["number"]).add_labels(name)
\* unless the run is a dry run
lp_add ==
    /\ pc = "lp_add"
    /\ IF dry_run
       THEN Return(RetNone) /\ UNCHANGED <<gh, eff>>
       ELSE \/ /\ FailureIn("label_pr")
               /\ eff' = Bump(eff, "net")
               /\ gh' = gh
            \/ /\ eff' = Bump(Bump(eff, "add_label"), "net")
               /\ gh' = AddLabel(gh, LabelDict)
               /\ Return(RetNone)
    /\ UNCHANGED <<client_vars, git_vars, other_vars, chain, regro_remote, label_exists, dry_said,
                   fork_branch, pr_json, pr_copy, op, dry_run, arg0, gh0,
                   last_status, authors_seen, decided_on, prev, input_from>>

(* ------------------------------------------------------------------ *)
(* The caller and the other users of the hosted API                   *)
(* ------------------------------------------------------------------ *)

\* the polling pass keeps the record a call returned as the cached record
Adopt ==
    /\ pc = "idle"
    /\ ret.kind = "record"
    /\ prev = NoPrev
    /\ pr_json' = ret.val
    /\ prev' = IF eff.close > 0 THEN op ELSE "other"
    /\ UNCHANGED <<client_vars, git_vars, other_vars, chain, regro_remote, label_exists, dry_said,
                   gh, fork_branch, pr_copy, pc, op, dry_run, tries, ret,
                   arg0, gh0, eff, last_status, authors_seen, decided_on,
                   input_from, faults>>

\* someone changes the pull request between two calls
Remote(g) ==
    /\ pc = "idle"
    /\ gh' = g
    /\ ret' = NoRet /\ arg0' = <<>> /\ gh0' = NoGh /\ eff' = NoEff
    /\ last_status' = 0 /\ authors_seen' = {} /\ decided_on' = <<>>
    /\ input_from' = NoPrev /\ pr_copy' = <<>> /\ tries' = 1
    /\ op' = "none" /\ dry_run' = FALSE
    /\ chain' = Leave(chain) /\ dry_said' = "none"
    /\ UNCHANGED <<client_vars, git_vars, other_vars, regro_remote, label_exists,
                   fork_branch, pr_json, pc,
                   prev, faults>>

HasRerun(g) == \E i \in 1..Len(g.labels) : g.labels[i].name = "bot-rerun"
NotRerun(lab) == lab.name # "bot-rerun"

RemoteClose == gh.state = "open" /\ Remote([gh EXCEPT !.state = "closed"])

RemoteMerge ==
    /\ gh.state = "open"
    /\ Remote([gh EXCEPT !.state = "closed", !.merged_at = "t-merged"])

RemoteReopen ==
    /\ gh.state = "closed" /\ gh.merged_at = None
    /\ Remote([gh EXCEPT !.state = "open"])

RemoteLabel ==
    /\ ~HasRerun(gh)
    /\ Remote([gh EXCEPT !.labels = Append(@, RerunLabelObj)])

RemoteUnlabel ==
    /\ HasRerun(gh)
    /\ Remote([gh EXCEPT !.labels = SelectSeq(@, NotRerun)])

RemoteConflict ==
    /\ gh.mergeable_state # "dirty"
    /\ Remote([gh EXCEPT !.mergeable_state = "dirty"])

RemoteRebase ==
    /\ gh.mergeable_state = "dirty" /\ gh.state = "open"
    /\ Remote([gh EXCEPT !.mergeable_state = "clean"])

\* the clone directory is removed; the next run clones the feedstock anew
RemoveClone ==
    /\ pc = "idle"
    /\ regro_remote
    /\ regro_remote' = FALSE
    /\ ret' = NoRet /\ arg0' = <<>> /\ gh0' = NoGh /\ eff' = NoEff
    /\ last_status' = 0 /\ authors_seen' = {} /\ decided_on' = <<>>
    /\ input_from' = NoPrev /\ pr_copy' = <<>> /\ tries' = 1
    /\ op' = "none" /\ dry_run' = FALSE
    /\ chain' = Leave(chain) /\ dry_said' = "none"
    /\ UNCHANGED <<client_vars, git_vars, other_vars, gh, label_exists, fork_branch,
                   pr_json, pc, prev, faults>>

(* ------------------------------------------------------------------ *)
(* Specification                                                      *)
(* ------------------------------------------------------------------ *)

\* a pull request just published; the record is what push_repo returned
InitialRemotes ==
    {[state |-> "open", merged_at |-> None, labels |-> <<OtherLabelObj>>,
      mergeable_state |-> "clean", draft |-> dr, authors |-> a] :
        dr \in BOOLEAN, a \in AuthorSets}

Init ==
    /\ gh \in InitialRemotes
    /\ fork_branch = TRUE
    /\ pr_json = trim_pr_json_keys(AsDict(gh), AsDict(gh))
    /\ pr_copy = <<>>
    /\ pc = "idle"
    /\ op = "none"
    /\ dry_run = FALSE
    /\ tries = 1
    /\ ret = NoRet
    /\ arg0 = <<>>
    /\ gh0 = NoGh
    /\ eff = NoEff
    /\ last_status = 0
    /\ authors_seen = {}
    /\ decided_on = <<>>
    /\ prev = NoPrev
    /\ input_from = NoPrev
    /\ faults = 0
    /\ chain = NewChain
    /\ regro_remote = FALSE
    /\ label_exists = TRUE
    /\ dry_said = "none"
    /\ ClientsAtRest
    /\ CloneAtRest
    /\ OthersAtRest

Next ==
    \/ CallRefreshPr \/ rp_start \/ rp_fetch \/ rp_delete
    \/ CallCloseOutLabels \/ col_start \/ col_fetch1 \/ col_decide
    \/ col_comment \/ col_close \/ col_delete \/ col_fetch2
    \/ CallCloseOutDirtyPrs \/ dp_start \/ dp_fetch1 \/ dp_decide
    \/ dp_commits \/ dp_comment \/ dp_close \/ dp_delete \/ dp_fetch2
    \/ Adopt
    \/ RemoteClose \/ RemoteMerge \/ RemoteReopen \/ RemoteLabel
    \/ RemoteUnlabel \/ RemoteConflict \/ RemoteRebase

Spec == Init /\ [][Next]_vars

(* ------------------------------------------------------------------ *)
(* Publishing and labelling                                           *)
(* ------------------------------------------------------------------ *)

\* the earlier pull request of the branch is closed; the clone directory is
\* fresh; the label may or may not exist in the repository
ClosedRemotes ==
    {[state |-> "closed", merged_at |-> None, labels |-> <<>>,
      mergeable_state |-> "clean", draft |-> dr, authors |-> a] :
        dr \in BOOLEAN, a \in AuthorSets}

InitPublish ==
    /\ gh \in ClosedRemotes
    /\ fork_branch = FALSE
    /\ pr_json = trim_pr_json_keys(AsDict(gh), AsDict(gh))
    /\ pr_copy = <<>>
    /\ pc = "idle"
    /\ op = "none"
    /\ dry_run = FALSE
    /\ tries = 1
    /\ ret = NoRet
    /\ arg0 = <<>>
    /\ gh0 = NoGh
    /\ eff = NoEff
    /\ last_status = 0
    /\ authors_seen = {}
    /\ decided_on = <<>>
    /\ prev = NoPrev
    /\ input_from = NoPrev
    /\ faults = 0
    /\ chain = NewChain
    /\ regro_remote = FALSE
    /\ label_exists \in BOOLEAN
    /\ dry_said = "none"
    /\ ClientsAtRest
    /\ CloneAtRest
    /\ OthersAtRest

NextPublish ==
    \/ CallPushRepo \/ pr_start \/ pr_remote_add \/ pr_push \/ pr_create_pull
    \/ CallEnsureLabelExists \/ el_lookup \/ el_create
    \/ CallLabelPr \/ lp_add
    \/ Adopt
    \/ RemoteClose
    \/ RemoveClone

SpecPublish == InitPublish /\ [][NextPublish]_vars

\* the steps of the functions: a function that was called runs on
StepsPublish ==
    \/ pr_start
    \/ pr_remote_add
    \/ pr_push
    \/ pr_create_pull
    \/ el_lookup
    \/ el_create
    \/ lp_add

\* publishing and labelling with the functions running to their end
SpecPublishLive == SpecPublish /\ WF_vars(StepsPublish)


(* ------------------------------------------------------------------ *)
(* Trimming on its own: any record, trimmed and trimmed again         *)
(* ------------------------------------------------------------------ *)

Opt(k, v, present) == IF present THEN k :> v ELSE <<>>

HeadShapes == {<<>>, [ref |-> Branch], [sha |-> "abc"],
               [ref |-> Branch, sha |-> "abc"]}
BaseShapes == {<<>>, [ref |-> "main"], [repo |-> <<>>],
               [repo |-> [name |-> RepoName]],
               [repo |-> [name |-> RepoName, id |-> 77], ref |-> "main"],
               [repo |-> [id |-> 77]]}

\* records with any mix of allowed keys, other keys, missing keys and
\* nested mappings under head and base
TrimInputs ==
    {Opt("ETag", "etag-1", b[1]) @@ Opt("state", "open", b[2])
     @@ Opt("body", "a body", b[3]) @@ Opt("labels", <<RerunLabelObj>>, b[4])
     @@ Opt("head", h, b[5]) @@ Opt("base", ba, b[6]) :
        b \in [1..6 -> BOOLEAN], h \in HeadShapes, ba \in BaseShapes}

InitTrim ==
    /\ pr_json \in TrimInputs
    /\ gh = NewPull([draft |-> FALSE, authors |-> {}])
    /\ fork_branch = TRUE
    /\ pr_copy = <<>>
    /\ pc = "idle"
    /\ op = "none"
    /\ dry_run = FALSE
    /\ tries = 1
    /\ ret = NoRet
    /\ arg0 = <<>>
    /\ gh0 = NoGh
    /\ eff = NoEff
    /\ last_status = 0
    /\ authors_seen = {}
    /\ decided_on = <<>>
    /\ prev = NoPrev
    /\ input_from = NoPrev
    /\ faults = 0
    /\ chain = NewChain
    /\ regro_remote = FALSE
    /\ label_exists = TRUE
    /\ dry_said = "none"
    /\ ClientsAtRest
    /\ CloneAtRest
    /\ OthersAtRest

\* trim_pr_json_keys(pr_json)
TrimRecord ==
    /\ pc = "idle"
    /\ arg0' = pr_json
    /\ pr_json' = trim_pr_json_keys(pr_json, pr_json)
    /\ pc' = "trimmed"
    /\ op' = "trim_pr_json_keys"
    /\ UNCHANGED <<client_vars, git_vars, other_vars, chain, regro_remote, label_exists, dry_said,
                   gh, fork_branch, pr_copy, dry_run, tries, ret, gh0, eff,
                   last_status, authors_seen, decided_on, prev, input_from,
                   faults>>

\* trim_pr_json_keys(pr_json, src_pr_json=...) with a response body
TrimFrom ==
    /\ pc = "idle"
    /\ arg0' = GhJson(gh)
    /\ pr_json' = trim_pr_json_keys(pr_json, GhJson(gh))
    /\ pc' = "trimmed"
    /\ op' = "trim_pr_json_keys"
    /\ UNCHANGED <<client_vars, git_vars, other_vars, chain, regro_remote, label_exists, dry_said,
                   gh, fork_branch, pr_copy, dry_run, tries, ret, gh0, eff,
                   last_status, authors_seen, decided_on, prev, input_from,
                   faults>>

\* trim_pr_json_keys on the trimmed record; pr_copy keeps the first result
TrimAgain ==
    /\ pc = "trimmed"
    /\ pr_copy' = pr_json
    /\ pr_json' = trim_pr_json_keys(pr_json, pr_json)
    /\ pc' = "retrimmed"
    /\ UNCHANGED <<client_vars, git_vars, other_vars, chain, regro_remote, label_exists, dry_said,
                   gh, fork_branch, op, dry_run, tries, ret, arg0, gh0, eff,
                   last_status, authors_seen, decided_on, prev, input_from,
                   faults>>

NextTrim == TrimRecord \/ TrimFrom \/ TrimAgain

SpecTrim == InitTrim /\ [][NextTrim]_vars


(* ------------------------------------------------------------------ *)
(* lazy_update_pr_json on its own: any cached record, any answer      *)
(* ------------------------------------------------------------------ *)

LazyRemotes ==
    {[state |-> "open", merged_at |-> None, labels |-> <<OtherLabelObj>>,
      mergeable_state |-> "clean", draft |-> FALSE,
      authors |-> {"regro-cf-autotick-bot"}],
     [state |-> "open", merged_at |-> None,
      labels |-> <<OtherLabelObj, RerunLabelObj>>,
      mergeable_state |-> "dirty", draft |-> TRUE,
      authors |-> {"regro-cf-autotick-bot"}],
     [state |-> "closed", merged_at |-> "t-merged", labels |-> <<>>,
      mergeable_state |-> "clean", draft |-> FALSE,
      authors |-> {"regro-cf-autotick-bot"}]}

\* base mappings of cached records: as trimmed, without repo, without
\* repo.name, and with a name that carries a "/pull/..." suffix
LazyBases ==
    {[repo |-> [name |-> RepoName]], <<>>, [repo |-> <<>>],
     [repo |-> [name |-> RepoName \o <<"/pull/", "12">>]]}

Without(d, k) == [x \in DOMAIN d \ {k} |-> d[x]]

\* the page of the pull request, as the API gives it and with a trailing
\* slash
LazyUrls == {HtmlUrl, HtmlUrl \o <<"/">>}

\* cached records: what an earlier fetch stored, with or without an ETag,
\* with any of the base mappings, with the branch name or the sentinel,
\* with the number of this pull request or of none, and with either URL
LazyInputs ==
    {LET t == trim_pr_json_keys(AsDict(g), AsDict(g))
         t1 == IF etag THEN t ELSE Without(t, "ETag")
         t2 == Put(t1, "base", ba)
         t3 == Put(t2, "head", [ref |-> ref])
         t4 == Put(t3, "html_url", url)
     IN  Put(t4, "number", n) :
        g \in LazyRemotes, etag \in BOOLEAN, ba \in LazyBases,
        ref \in {Branch, NOT_A_BRANCH}, n \in {PrNumber, PrNumber + 1},
        url \in LazyUrls}

InitLazy ==
    /\ pr_json \in LazyInputs
    /\ gh \in LazyRemotes
    /\ fork_branch = TRUE
    /\ pr_copy = <<>>
    /\ pc = "idle"
    /\ op = "none"
    /\ dry_run = FALSE
    /\ tries = 1
    /\ ret = NoRet
    /\ arg0 = <<>>
    /\ gh0 = NoGh
    /\ eff = NoEff
    /\ last_status = 0
    /\ authors_seen = {}
    /\ decided_on = <<>>
    /\ prev = NoPrev
    /\ input_from = NoPrev
    /\ faults = 0
    /\ chain = NewChain
    /\ regro_remote = FALSE
    /\ label_exists = TRUE
    /\ dry_said = "none"
    /\ ClientsAtRest
    /\ CloneAtRest
    /\ OthersAtRest

\* lazy_update_pr_json(pr_json, force): the request is sent, and the record
\* is rewritten from the answer the request gets or from an answer with an
\* error status
LazyUpdate ==
    /\ pc = "idle"
    /\ \E force \in BOOLEAN :
         LET req == lazy_update_request(repair_base(pr_json), force)
         IN  \E r \in {Answer(req, gh), ErrorAnswer(gh), ForbiddenAnswer(gh)} :
                /\ op' = IF force THEN "lazy_update_pr_json_force"
                                  ELSE "lazy_update_pr_json"
                /\ pr_json' = lazy_update_pr_json(pr_json, r)
                /\ last_status' = r.status_code
                /\ ret' = RetRecord(pr_json')
                /\ eff' = [Bump(eff, "net") EXCEPT !.sent = Append(@, req)]
    /\ arg0' = pr_json
    /\ gh0' = gh
    /\ pc' = "updated"
    /\ UNCHANGED <<client_vars, git_vars, other_vars, chain, regro_remote, label_exists, dry_said,
                   gh, fork_branch, pr_copy, dry_run, tries, authors_seen,
                   decided_on, prev, input_from, faults>>

NextLazy == LazyUpdate

SpecLazy == InitLazy /\ [][NextLazy]_vars

(* ------------------------------------------------------------------ *)
(* The client handles and the rate-limit probes of the worker threads *)
(* ------------------------------------------------------------------ *)

\* no pull request is being worked on
EngineAtRest ==
    /\ pr_json = <<>>
    /\ gh = NoGh
    /\ fork_branch = FALSE
    /\ pr_copy = <<>>
    /\ pc = "idle"
    /\ op = "none"
    /\ dry_run = FALSE
    /\ tries = 1
    /\ ret = NoRet
    /\ arg0 = <<>>
    /\ gh0 = NoGh
    /\ eff = NoEff
    /\ last_status = 0
    /\ authors_seen = {}
    /\ decided_on = <<>>
    /\ prev = NoPrev
    /\ input_from = NoPrev
    /\ faults = 0
    /\ chain = NewChain
    /\ regro_remote = FALSE
    /\ label_exists = TRUE
    /\ dry_said = "none"

InitClients == EngineAtRest /\ ClientsAtRest /\ CloneAtRest /\ OthersAtRest

\* the threads ask for their clients
NextClients ==
    \E t \in Threads :
       \/ CallGithub3Client(t)
       \/ CallGithubClient(t)
       \/ client_check(t)
       \/ client_login(t)
       \/ client_return(t)

SpecClients == InitClients /\ [][NextClients]_vars

\* the threads probe the rate limit
NextRate ==
    \/ \E t \in Threads :
          \/ CallIsGithubApiLimitReached(t)
          \/ CallGetGithubApiRequestsLeft(t)
          \/ client_check(t)
          \/ client_login(t)
          \/ client_return(t)
          \/ probe(t)
    \/ RateUse
    \/ RateReset

SpecRate == InitClients /\ [][NextRate]_vars

(* ------------------------------------------------------------------ *)
(* fetch_repo on its own                                              *)
(* ------------------------------------------------------------------ *)

InitFetch ==
    /\ EngineAtRest
    /\ ClientsAtRest
    /\ OthersAtRest
    /\ clone = NoClone
    /\ upstream_tip = 1

NextFetch ==
    \/ CallFetchRepo
    \/ fr_start
    \/ fr_clone
    \/ fr_reset_head
    \/ fr_remote_add
    \/ fr_fetch
    \/ fr_branch_list
    \/ fr_checkout_base
    \/ fr_checkout_track
    \/ fr_checkout_new
    \/ fr_reset_upstream
    \/ fr_checkout_target
    \/ fr_create_target
    \/ UpstreamAdvance
    \/ CommitOnBase
    \/ RemoveFeedstockDir

SpecFetch == InitFetch /\ [][NextFetch]_vars

(* ------------------------------------------------------------------ *)
(* The clone directory under fetch_repo and push_repo                 *)
(* ------------------------------------------------------------------ *)

\* the named remotes in the configuration of the clone directory: origin
\* from git clone, upstream from fetch_repo, regro_remote from push_repo
Remotes ==
    (IF clone.dir THEN {"origin"} ELSE {})
    \cup (IF clone.upstream THEN {"upstream"} ELSE {})
    \cup (IF regro_remote THEN {"regro_remote"} ELSE {})

\* push_repo is called in the directory fetch_repo has prepared
CallPushRepoInClone ==
    /\ clone.dir
    /\ clone.head = "target"
    /\ CallPushRepo

NextWorkdir ==
    \/ CallFetchRepo
    \/ fr_start
    \/ fr_clone
    \/ fr_reset_head
    \/ fr_remote_add
    \/ fr_fetch
    \/ fr_branch_list
    \/ fr_checkout_base
    \/ fr_checkout_track
    \/ fr_checkout_new
    \/ fr_reset_upstream
    \/ fr_checkout_target
    \/ fr_create_target
    \/ CallPushRepoInClone
    \/ pr_start
    \/ pr_remote_add
    \/ pr_push
    \/ pr_create_pull
    \/ RemoteClose

SpecWorkdir == InitPublish /\ [][NextWorkdir]_vars


(* ------------------------------------------------------------------ *)
(* get_repo and _sync_default_branches                                *)
(* ------------------------------------------------------------------ *)

\* forge.upstream: conda-forge/<name> exists; forge.default: its default
\* branch; forge.fork: the fork of the bot user is absent, being created
\* (pending) or present; forge.fork_default: the fork's default branch
Forges ==
    [upstream : BOOLEAN, default : {"main"},
     fork : {"absent", "present"}, fork_default : {"main", "master"}]

\* (feedstock_dir, repo), the value of a successful get_repo
RetDirRepo == [kind |-> "dir_repo", val |-> <<>>]

gr_frame ==
    <<gh, fork_branch, pr_json, pr_copy, op, dry_run, arg0, gh0,
      last_status, authors_seen, decided_on, prev, input_from, chain,
      regro_remote, label_exists, dry_said, client_vars, git_vars, logs>>

CallGetRepo ==
    /\ pc = "idle"
    /\ op' = "get_repo"
    /\ pc' = "gr_me"
    /\ ret' = NoRet
    /\ eff' = NoEff
    /\ tries' = 1
    /\ \E f, p \in BOOLEAN : arg0' = [fork |-> f, pull_request |-> p]
    /\ gh0' = forge
    /\ UNCHANGED <<gh, fork_branch, pr_json, pr_copy, dry_run, last_status,
                   authors_seen, decided_on, prev, input_from, faults, chain,
                   regro_remote, label_exists, dry_said, client_vars,
                   git_vars, other_vars>>

\* gh_username = gh.me().login
gr_me ==
    /\ pc = "gr_me"
    /\ eff' = Bump(eff, "net")
    /\ \/ Failure
       \/ Goto("gr_upstream")
    /\ UNCHANGED <<forge, pr_info, gr_frame>>

AfterUpstream == IF arg0.fork THEN "gr_fork_lookup" ELSE "fr_start"

\* the call goes on after an absent upstream repository
gr_upstream_goes_on ==
    /\ pc = "gr_upstream"
    /\ IF arg0.pull_request \/ arg0.fork
       THEN /\ eff' = Bump(eff, "net")
            /\ \/ Failure /\ pr_info' = pr_info
               \/ /\ ~forge.upstream
                  /\ pr_info' = Put(pr_info, "bad", "does not match feedstock name")
                  /\ Goto(AfterUpstream)
               \/ /\ forge.upstream
                  /\ pr_info' = pr_info
                  /\ Goto(AfterUpstream)
       ELSE /\ eff' = eff
            /\ pr_info' = pr_info
            /\ Goto(AfterUpstream)
    /\ UNCHANGED <<forge, gr_frame>>

\* repo = gh.repository("conda-forge", name); None ends the call with the
\* "bad" annotation
gr_upstream ==
    /\ pc = "gr_upstream"
    /\ IF arg0.pull_request \/ arg0.fork
       THEN /\ eff' = Bump(eff, "net")
            /\ \/ Failure /\ pr_info' = pr_info
               \/ /\ ~forge.upstream
                  /\ pr_info' = Put(pr_info, "bad", "does not match feedstock name")
                  /\ Return(RetFalse)
               \/ /\ forge.upstream
                  /\ pr_info' = pr_info
                  /\ Goto(AfterUpstream)
       ELSE /\ eff' = eff
            /\ pr_info' = pr_info
            /\ Goto(AfterUpstream)
    /\ UNCHANGED <<forge, gr_frame>>

\* what follows the fork lookup with outcome seen
AfterLookup(seen) == IF seen = "found" THEN "gr_sync" ELSE "gr_create_fork"

\* the fork is created whatever the lookup said
gr_fork_lookup_always_creates ==
    /\ pc = "gr_fork_lookup"
    /\ \/ /\ Failure
          /\ eff' = Bump(eff, "net")
       \/ /\ faults < MaxFaults
          /\ faults' = faults + 1
          /\ eff' = [Bump(eff, "net") EXCEPT !.fork_seen = "raised"]
          /\ pc' = AfterLookup("raised")
          /\ ret' = ret
          /\ tries' = tries
       \/ \E seen \in {IF forge.fork = "present" THEN "found" ELSE "none"} :
            /\ eff' = [Bump(eff, "net") EXCEPT !.fork_seen = seen]
            /\ Goto(AfterLookup("none"))
    /\ UNCHANGED <<forge, pr_info, gr_frame>>

\* fork_repo = gh.repository(gh_username, name): the repository, None or a
\* null object, or a GitHubError that is caught and read as None
gr_fork_lookup ==
    /\ pc = "gr_fork_lookup"
    /\ \/ /\ Failure
          /\ eff' = Bump(eff, "net")
       \/ /\ faults < MaxFaults
          /\ faults' = faults + 1
          /\ eff' = [Bump(eff, "net") EXCEPT !.fork_seen = "raised"]
          /\ pc' = AfterLookup("raised")
          /\ ret' = ret
          /\ tries' = tries
       \/ \E seen \in {IF forge.fork = "present" THEN "found" ELSE "none"} :
            /\ eff' = [Bump(eff, "net") EXCEPT !.fork_seen = seen]
            /\ Goto(AfterLookup(seen))
    /\ UNCHANGED <<forge, pr_info, gr_frame>>

\* the forge after repo.create_fork(): a new fork takes the default branch
\* of upstream and may take a while to appear; an existing fork stays
Forked(state) ==
    IF forge.fork = "absent"
    THEN [forge EXCEPT !.fork = state, !.fork_default = forge.default]
    ELSE forge

\* repo.create_fork(); time.sleep(5)
gr_create_fork ==
    /\ pc = "gr_create_fork"
    /\ \/ /\ Failure
          /\ eff' = Bump(eff, "net")
          /\ forge' = forge
       \/ /\ \E state \in {"pending", "present"} : forge' = Forked(state)
          /\ eff' = Step(Step(Bump(eff, "net"), "create_fork", TRUE),
                         "sleep", TRUE)
          /\ Goto("gr_sync")
    /\ UNCHANGED <<pr_info, gr_frame>>

\* _sync_default_branches up to the comparison: the login and the two
\* repositories are read; a fork that is not there yet raises
gr_sync ==
    /\ pc = "gr_sync"
    /\ eff' = Bump(eff, "net")
    /\ \/ Failure
       \/ /\ forge.fork # "present"
          /\ Return(RetRaised("UnknownObjectException"))
       \/ /\ forge.fork = "present"
          /\ Goto(IF forge.fork_default # forge.default
                  THEN "gr_rename" ELSE "fr_start")
    /\ UNCHANGED <<forge, pr_info, gr_frame>>

\* forked_repo.rename_branch(forked_default_branch, default_branch);
\* time.sleep(5)
gr_rename ==
    /\ pc = "gr_rename"
    /\ \/ /\ Failure
          /\ eff' = Bump(eff, "net")
          /\ forge' = forge
       \/ /\ forge' = [forge EXCEPT !.fork_default = forge.default]
          /\ eff' = Step(Step(Bump(eff, "net"), "rename", TRUE),
                         "sleep", TRUE)
          /\ Goto("fr_start")
    /\ UNCHANGED <<pr_info, gr_frame>>

\* the value of get_repo after fetch_repo: repo is bound only when
\* pull_request or fork is set
gr_return ==
    /\ pc = "gr_return"
    /\ IF ret = RetTrue
       THEN IF arg0.pull_request \/ arg0.fork
            THEN Return(RetDirRepo)
            ELSE Return(RetRaised("UnboundLocalError"))
       ELSE Return(RetFalse)
    /\ UNCHANGED <<eff, forge, pr_info, gr_frame>>

\* GitHub finishes the creation of the fork
ForkAppears ==
    /\ forge.fork = "pending"
    /\ forge' = [forge EXCEPT !.fork = "present"]
    /\ UNCHANGED <<gh, fork_branch, pr_json, pr_copy, pc, op, dry_run, tries,
                   ret, arg0, gh0, eff, last_status, authors_seen,
                   decided_on, prev, input_from, faults, chain, regro_remote,
                   label_exists, dry_said, client_vars, git_vars, pr_info,
                   logs>>

InitFork ==
    /\ EngineAtRest
    /\ ClientsAtRest
    /\ CloneAtRest
    /\ forge \in Forges
    /\ pr_info = <<>>
    /\ logs = NoLogs

NextFork ==
    \/ CallGetRepo
    \/ gr_me
    \/ gr_upstream
    \/ gr_fork_lookup
    \/ gr_create_fork
    \/ gr_sync
    \/ gr_rename
    \/ fr_start
    \/ fr_clone
    \/ fr_reset_head
    \/ fr_remote_add
    \/ fr_fetch
    \/ fr_branch_list
    \/ fr_checkout_base
    \/ fr_checkout_track
    \/ fr_checkout_new
    \/ fr_reset_upstream
    \/ fr_checkout_target
    \/ fr_create_target
    \/ gr_return
    \/ ForkAppears

SpecFork == InitFork /\ [][NextFork]_vars


\* the state in which a function of its arguments alone is called: the
\* arguments are drawn from inputs, everything else is at rest
AtRestWith(inputs) ==
    /\ arg0 \in inputs
    /\ pr_json = <<>>
    /\ gh = NoGh
    /\ fork_branch = FALSE
    /\ pr_copy = <<>>
    /\ pc = "idle"
    /\ op = "none"
    /\ dry_run = FALSE
    /\ tries = 1
    /\ ret = NoRet
    /\ gh0 = NoGh
    /\ eff = NoEff
    /\ last_status = 0
    /\ authors_seen = {}
    /\ decided_on = <<>>
    /\ prev = NoPrev
    /\ input_from = NoPrev
    /\ faults = 0
    /\ chain = NewChain
    /\ regro_remote = FALSE
    /\ label_exists = TRUE
    /\ dry_said = "none"
    /\ ClientsAtRest
    /\ CloneAtRest
    /\ OthersAtRest

(* ------------------------------------------------------------------ *)
(* feedstock_url and fork_url                                         *)
(* ------------------------------------------------------------------ *)

\* strings are sequences of characters
HttpPrefix ==
    <<"h", "t", "t", "p", ":", "/", "/", "g", "i", "t", "h", "u", "b", ".",
      "c", "o", "m", "/">>
HttpsPrefix ==
    <<"h", "t", "t", "p", "s", ":", "/", "/", "g", "i", "t", "h", "u", "b",
      ".", "c", "o", "m", "/">>
SshPrefix ==
    <<"g", "i", "t", "@", "g", "i", "t", "h", "u", "b", ".", "c", "o", "m",
      ":">>
CondaForge ==
    <<"c", "o", "n", "d", "a", "-", "f", "o", "r", "g", "e">>
FeedstockSuffix ==
    <<"-", "f", "e", "e", "d", "s", "t", "o", "c", "k">>
DotGit ==
    <<".", "g", "i", "t">>
Slash == <<"/">>

StartsWith(s, prefix) ==
    Len(prefix) <= Len(s) /\ SubSeq(s, 1, Len(prefix)) = prefix

\* str.lower() on the letters protocols are written with
LowerChar(c) ==
    CASE c = "S" -> "s" [] c = "H" -> "h" [] c = "T" -> "t"
      [] c = "P" -> "p" [] OTHER -> c
Lower(s) == [i \in DOMAIN s |-> LowerChar(s[i])]

ValueError == <<"ValueError">>

feedstock_url(feedstock_name, protocol) ==
    LET feedstock == feedstock_name \o FeedstockSuffix
        proto == Lower(protocol)
    IN  IF \/ StartsWith(feedstock, HttpPrefix)
           \/ StartsWith(feedstock, HttpsPrefix)
           \/ StartsWith(feedstock, SshPrefix)
        THEN feedstock
        ELSE CASE proto = <<"h", "t", "t", "p">> ->
                    HttpPrefix \o CondaForge \o Slash \o feedstock \o DotGit
               [] proto = <<"h", "t", "t", "p", "s">> ->
                    HttpsPrefix \o CondaForge \o Slash \o feedstock \o DotGit
               [] proto = <<"s", "s", "h">> ->
                    SshPrefix \o CondaForge \o Slash \o feedstock \o DotGit
               [] OTHER -> ValueError

\* the positions of the separator sep in s
Positions(s, sep) == {i \in DOMAIN s : s[i] = sep}

Max(S) == CHOOSE x \in S : \A y \in S : y <= x

\* s[:-n]
DropLast(s, n) == SubSeq(s, 1, Len(s) - n)

\* beg[:-10]
fork_url_chops_ten(url, username) ==
    IF Positions(url, "/") = {}
    THEN ValueError
    ELSE LET cut == Max(Positions(url, "/"))
             beg == DropLast(SubSeq(url, 1, cut - 1), 10)
             end == SubSeq(url, cut + 1, Len(url))
         IN  beg \o username \o Slash \o end

\* beg, end = feedstock_url.rsplit("/", 1); beg = beg[:-11]
fork_url(url, username) ==
    IF Positions(url, "/") = {}
    THEN ValueError
    ELSE LET cut == Max(Positions(url, "/"))
             beg == DropLast(SubSeq(url, 1, cut - 1), 11)
             end == SubSeq(url, cut + 1, Len(url))
         IN  beg \o username \o Slash \o end

FeedstockNames ==
    { <<"f", "o", "o">>, <<"a">>, <<"r", "-", "x", "m", "l", "2">>,
      <<"n", "u", "m", "p", "y">>,
      HttpsPrefix \o CondaForge \o Slash \o <<"f", "o", "o">> }
Protocols ==
    { <<"s", "s", "h">>, <<"h", "t", "t", "p">>,
      <<"h", "t", "t", "p", "s">>, <<"S", "S", "H">>, <<"f", "t", "p">> }
Usernames ==
    { <<"a", "l", "i", "c", "e">>, <<"b", "o", "t">>,
      <<"r", "e", "g", "r", "o", "-", "c", "f">> }

RetStr(v) == [kind |-> "str", val |-> v]

url_frame ==
    <<gh, fork_branch, pr_json, pr_copy, dry_run, tries, gh0, eff,
      last_status, authors_seen, decided_on, prev, input_from, faults,
      chain, regro_remote, label_exists, dry_said, client_vars, git_vars,
      other_vars>>

\* feedstock_url(fctx, protocol)
CallFeedstockUrl ==
    /\ pc = "idle"
    /\ op = "none"
    /\ op' = "feedstock_url"
    /\ LET url == feedstock_url(arg0.feedstock_name, arg0.protocol)
       IN  IF url = ValueError
           THEN ret' = RetRaised("ValueError") /\ arg0' = arg0
           ELSE ret' = RetStr(url) /\ arg0' = [arg0 EXCEPT !.url = url]
    /\ pc' = pc
    /\ UNCHANGED url_frame

\* fork_url(feedstock_url(fctx, protocol), username)
CallForkUrl ==
    /\ pc = "idle"
    /\ op = "feedstock_url"
    /\ ret.kind = "str"
    /\ op' = "fork_url"
    /\ LET url == fork_url(arg0.url, arg0.username)
       IN  ret' = IF url = ValueError THEN RetRaised("ValueError")
                  ELSE RetStr(url)
    /\ pc' = pc
    /\ UNCHANGED <<arg0, url_frame>>

UrlInputs ==
    [feedstock_name : FeedstockNames, protocol : Protocols,
     username : Usernames, url : {<<>>}]

InitUrl == AtRestWith(UrlInputs)

NextUrl ==
    \/ CallFeedstockUrl
    \/ CallForkUrl

SpecUrl == InitUrl /\ [][NextUrl]_vars


(* ------------------------------------------------------------------ *)
(* print_subprocess_output_strip_token and run_command_hiding_token   *)
(* ------------------------------------------------------------------ *)

\* longest text a subprocess has captured
MaxText == 3
Alphabet == {"a", "b", "*"}
TextsUpTo(n) == UNION {[1..k -> Alphabet] : k \in 0..n}

\* "*" * n
Mask(n) == [i \in 1..n |-> "*"]

\* only the first occurrence is replaced
RECURSIVE Replace_first_only(_, _, _)
Replace_first_only(text, old, new) ==
    IF old = <<>> \/ Len(text) < Len(old)
    THEN text
    ELSE IF StartsWith(text, old)
         THEN new \o SubSeq(text, Len(old) + 1, Len(text))
         ELSE <<Head(text)>> \o Replace_first_only(Tail(text), old, new)

\* str.replace(old, new): the occurrences of old are replaced from the left
\* and do not overlap; the only empty pair used is old = new = ""
RECURSIVE Replace(_, _, _)
Replace(text, old, new) ==
    IF old = <<>> \/ Len(text) < Len(old)
    THEN text
    ELSE IF StartsWith(text, old)
         THEN new \o Replace(SubSeq(text, Len(old) + 1, Len(text)), old, new)
         ELSE <<Head(text)>> \o Replace(Tail(text), old, new)

\* token in text
Contains(text, token) ==
    \E i \in 0..(Len(text) - Len(token)) :
        SubSeq(text, i + 1, i + Len(token)) = token

\* what subprocess.run has captured on one stream: a str, None, or bytes
\* when text=True was not given
Str(t) == [kind |-> "str", text |-> t]
NotCaptured == [kind |-> "None", text |-> <<>>]
BytesCaptured == [kind |-> "bytes", text |-> <<>>]

CompletedProcesses ==
    [stdout : {Str(t) : t \in TextsUpTo(MaxText)}
                 \cup {NotCaptured, BytesCaptured},
     stderr : {Str(t) : t \in TextsUpTo(1)} \cup {NotCaptured, BytesCaptured},
     token : TextsUpTo(2),
     returncode : {0, 1}]

RetInt(n) == [kind |-> "int", val |-> <<n>>]

mask_frame ==
    <<gh, fork_branch, pr_json, pr_copy, dry_run, tries, gh0, eff,
      last_status, authors_seen, decided_on, prev, input_from, faults,
      chain, regro_remote, label_exists, dry_said, client_vars, git_vars,
      forge, pr_info>>

CallPrintSubprocessOutputStripToken ==
    /\ pc = "idle"
    /\ op = "none"
    /\ op' = "print_subprocess_output_strip_token"
    /\ pc' = "ps_stdout"
    /\ UNCHANGED <<ret, arg0, logs, mask_frame>>

\* p = subprocess.run(args, text=True, stdout=PIPE, stderr=PIPE), which
\* captures str on both streams
CallRunCommandHidingToken ==
    /\ pc = "idle"
    /\ op = "none"
    /\ arg0.stdout.kind = "str"
    /\ arg0.stderr.kind = "str"
    /\ op' = "run_command_hiding_token"
    /\ pc' = "ps_stdout"
    /\ UNCHANGED <<ret, arg0, logs, mask_frame>>

\* one round of the loop over (out, sys.stdout), (err, sys.stderr)
Written(captured, out_dev, p) ==
    CASE captured.kind = "None" ->
            /\ logs' = logs
            /\ pc' = p
            /\ ret' = ret
      [] captured.kind = "bytes" ->
            /\ logs' = logs
            /\ pc' = "idle"
            /\ ret' = RetRaised("ValueError")
      [] OTHER ->
            /\ logs' = [logs EXCEPT !.out = Append(@,
                   [dev |-> out_dev,
                    text |-> Replace(captured.text, arg0.token,
                                     Mask(Len(arg0.token)))])]
            /\ pc' = p
            /\ ret' = ret

ps_stdout ==
    /\ pc = "ps_stdout"
    /\ Written(arg0.stdout, "stdout", "ps_stderr")
    /\ UNCHANGED <<op, arg0, mask_frame>>

ps_stderr ==
    /\ pc = "ps_stderr"
    /\ Written(arg0.stderr, "stderr", "ps_return")
    /\ UNCHANGED <<op, arg0, mask_frame>>

\* return p.returncode, or None from the printing function itself
ps_return ==
    /\ pc = "ps_return"
    /\ pc' = "idle"
    /\ ret' = IF op = "run_command_hiding_token"
              THEN RetInt(arg0.returncode) ELSE RetNone
    /\ UNCHANGED <<op, arg0, logs, mask_frame>>

InitMask == AtRestWith(CompletedProcesses)

NextMask ==
    \/ CallPrintSubprocessOutputStripToken
    \/ CallRunCommandHidingToken
    \/ ps_stdout
    \/ ps_stderr
    \/ ps_return

SpecMask == InitMask /\ [][NextMask]_vars


(* ------------------------------------------------------------------ *)
(* pluck                                                              *)
(* ------------------------------------------------------------------ *)

\* node ids of the graphs given to pluck
MaxNode == 3
NodeIds == 1..MaxNode

\* the directed graphs on some of the node ids, self-loops included
DiGraphs ==
    UNION {[nodes : {N}, edges : SUBSET (N \X N)] : N \in SUBSET NodeIds}

\* {_in for (_in, _) in G.in_edges(node_id)}
InNodes(G, n) == {e[1] : e \in {e \in G.edges : e[2] = n}}

\* {_out for (_, _out) in G.out_edges(node_id)}
OutNodes(G, n) == {e[2] : e \in {e \in G.edges : e[1] = n}}

\* G.remove_node(n): the node goes with the edges at it
remove_node(G, n) ==
    [nodes |-> G.nodes \ {n},
     edges |-> {e \in G.edges : e[1] # n /\ e[2] # n}]

\* G.add_edges_from(edges): end points that are no nodes yet become nodes
add_edges_from(G, edges) ==
    [nodes |-> G.nodes \cup {e[1] : e \in edges} \cup {e[2] : e \in edges},
     edges |-> G.edges \cup edges]

pluck(G, node_id) ==
    IF node_id \in G.nodes
    THEN LET new_edges == (InNodes(G, node_id) \ {node_id})
                              \X (OutNodes(G, node_id) \ {node_id})
         IN  add_edges_from(remove_node(G, node_id), new_edges)
    ELSE G

PluckInputs == [G : DiGraphs, node_id : NodeIds, G0 : {<<>>}]

\* pluck(G, node_id) works in place: G0 keeps the graph of before
CallPluck ==
    /\ pc = "idle"
    /\ op = "none"
    /\ op' = "pluck"
    /\ arg0' = [arg0 EXCEPT !.G = pluck(arg0.G, arg0.node_id), !.G0 = arg0.G]
    /\ ret' = RetNone
    /\ pc' = pc
    /\ UNCHANGED url_frame

InitPluck == AtRestWith(PluckInputs)

NextPluck == CallPluck

SpecPluck == InitPluck /\ [][NextPluck]_vars


(* ------------------------------------------------------------------ *)
(* A branch from its push to its deletion                             *)
(* ------------------------------------------------------------------ *)

NextBranch ==
    \/ CallPushRepo \/ pr_start \/ pr_remote_add \/ pr_push \/ pr_create_pull
    \/ CallRefreshPr \/ rp_start \/ rp_fetch \/ rp_delete
    \/ Adopt
    \/ RemoteClose \/ RemoteMerge
    \/ RemoveClone

SpecBranch == InitPublish /\ [][NextBranch]_vars


(* ------------------------------------------------------------------ *)
(* fold_log_lines                                                     *)
(* ------------------------------------------------------------------ *)

\* fold_log_lines sections entered in one behaviour
MaxSections == 4
Titles == {"build", "test"}

Line(kind, title) == [kind |-> kind, title |-> title]

\* the lines of kind in what was written
LinesOf(out, kind) == {i \in DOMAIN out : out[i].kind = kind}

\* the sections entered so far, each of which has written a group line or
\* a title line
Entered == Cardinality(LinesOf(logs.out, "group"))
               + Cardinality(LinesOf(logs.out, "title"))

log_frame ==
    <<gh, fork_branch, pr_json, pr_copy, pc, op, dry_run, tries, ret, arg0,
      gh0, eff, last_status, authors_seen, decided_on, prev, input_from,
      faults, chain, regro_remote, label_exists, dry_said, client_vars,
      git_vars, forge, pr_info>>

\* with fold_log_lines(title): the code up to the yield
fl_enter ==
    /\ ~logs.raising
    /\ Entered < MaxSections
    /\ \E title \in Titles :
         logs' = IF logs.github_actions /\ ~logs.folded
                 THEN [logs EXCEPT !.folded = TRUE,
                                   !.sections = Append(@, title),
                                   !.out = Append(@, Line("group", title))]
                 ELSE [logs EXCEPT !.sections = Append(@, title),
                                   !.out = @ \o <<Line("rule", ""),
                                                  Line("rule", ""),
                                                  Line("title", title)>>]
    /\ UNCHANGED log_frame

\* the body of the innermost section raises
fl_raise ==
    /\ logs.sections # <<>>
    /\ ~logs.raising
    /\ logs' = [logs EXCEPT !.raising = TRUE]
    /\ UNCHANGED log_frame

\* the finally block of the innermost section, reached at the end of the
\* body or by an exception, which travels on to the enclosing section
fl_exit ==
    /\ logs.sections # <<>>
    /\ LET left == SubSeq(logs.sections, 1, Len(logs.sections) - 1)
           after == [logs EXCEPT !.sections = left,
                                 !.raising = @ /\ left # <<>>]
       IN  logs' = IF logs.github_actions
                   THEN [after EXCEPT !.folded = FALSE,
                                      !.out = Append(@, Line("endgroup", ""))]
                   ELSE after
    /\ UNCHANGED log_frame

InitLog ==
    /\ EngineAtRest
    /\ ClientsAtRest
    /\ CloneAtRest
    /\ forge = SettledForge
    /\ pr_info = <<>>
    /\ logs \in {[NoLogs EXCEPT !.github_actions = g] : g \in BOOLEAN}

NextLog ==
    \/ fl_enter
    \/ fl_raise
    \/ fl_exit

SpecLog == InitLog /\ [][NextLog]_vars


(* ------------------------------------------------------------------ *)
(* Properties                                                         *)
(* ------------------------------------------------------------------ *)

\* the call of operation o is over
Done(o) == pc = "idle" /\ op = o /\ ret.kind # "unset"

NoAction == eff.comment = 0 /\ eff.close = 0 /\ eff.delete = 0

HasBotRerunEntry(pr) ==
    \E i \in 1..Len(pr["labels"]) : pr["labels"][i] = BOT_RERUN_LABEL

\* a non-dry-run close_out_labels is over; it started on a cached record
\* that was open and labeled while the remote pull request was open and
\* labeled
StaleRerunCase ==
    /\ Done("close_out_labels") /\ ~dry_run
    /\ rerun_requested(arg0)
    /\ gh0.state = "open" /\ HasRerun(gh0)

\* close_out_labels is over; it ran on the closed record that an earlier
\* close_out_labels, which closed the pull request, had returned
SecondRunCase ==
    /\ Done("close_out_labels")
    /\ input_from = "close_out_labels"
    /\ arg0["state"] = "closed"

DirtyCase ==
    /\ Done("close_out_dirty_prs") /\ ~dry_run
    /\ dirty_open_non_draft(arg0)
    /\ gh0.state = "open" /\ gh0.mergeable_state = "dirty" /\ ~gh0.draft

\* C3, as stated: with bot authors only, a run that does not raise closes
\* the pull request and returns a closed record that holds the bot-rerun
\* entry
C3_AsStated ==
    (DirtyCase /\ gh0.authors \subseteq CF_BOT_NAMES /\ ret.kind # "raise") =>
        /\ gh.state = "closed"
        /\ ret.kind = "record"
        /\ ret.val["state"] = "closed"
        /\ HasBotRerunEntry(ret.val)

\* C3, amended: with bot authors only, a run that met no network exception
\* closes the pull request and returns a record that holds the bot-rerun
\* entry; the record is closed when the last fetch was answered 200
C3_DirtyBotOnlyClosedAndLabeled ==
    (DirtyCase /\ gh0.authors \subseteq CF_BOT_NAMES /\ ret.kind # "raise") =>
        /\ gh.state = "closed" /\ eff.close = 1
        /\ ret.kind = "record"
        /\ HasBotRerunEntry(ret.val)
        /\ last_status = 200 => ret.val["state"] = "closed"

C3_Witness ==
    /\ DirtyCase /\ gh0.authors \subseteq CF_BOT_NAMES
    /\ ret.kind = "record" /\ ret.val["state"] = "closed"
    /\ HasBotRerunEntry(ret.val)

\* C4, as stated: with a commit author that is not a bot the run returns
\* none
C4_AsStated ==
    (DirtyCase /\ ~(gh0.authors \subseteq CF_BOT_NAMES) /\ ret.kind # "raise")
        => ret.kind = "None"

\* C4, amended: with a commit author that is not a bot, a run that met no
\* network exception returns the refreshed record as it is (open, nothing
\* appended to its labels), not none, and has not commented, closed or
\* deleted
C4_DirtyHumanCommitReturnsRecord ==
    (DirtyCase /\ ~(gh0.authors \subseteq CF_BOT_NAMES) /\ ret.kind # "raise")
        => /\ ret.kind = "record"
           /\ ret.val = decided_on
           /\ ret.val["state"] = "open"
           /\ ~HasBotRerunEntry(ret.val)
           /\ NoAction
           /\ gh.state = "open"

C4_Witness ==
    /\ DirtyCase /\ HumanName \in gh0.authors
    /\ ret.kind = "record" /\ NoAction /\ authors_seen = gh0.authors

\* C5: in one call of a closure rule, retries included, the comment is
\* posted at most once and the pull request is closed at most once
C5_CommentAtMostOnce ==
    (op \in {"close_out_labels", "close_out_dirty_prs"}) =>
        eff.comment <= 1 /\ eff.close <= 1

KeysAllowed(pr) ==
    /\ DOMAIN pr \subseteq
         {"ETag", "Last-Modified", "id", "number", "html_url", "created_at",
          "updated_at", "merged_at", "closed_at", "state", "mergeable_state",
          "labels", "merged", "draft", "mergeable", "head", "base"}
    /\ "head" \in DOMAIN pr => DOMAIN pr["head"] \subseteq {"ref"}
    /\ "base" \in DOMAIN pr =>
         /\ DOMAIN pr["base"] \subseteq {"repo"}
         /\ "repo" \in DOMAIN pr["base"] =>
              DOMAIN pr["base"]["repo"] \subseteq {"name"}

\* C6: the cached record, the copy refresh_pr works on and every record an
\* operation returns hold allow-listed keys only
C6_OnlyAllowedKeys ==
    /\ KeysAllowed(pr_json)
    /\ KeysAllowed(pr_copy)
    /\ ret.kind = "record" => KeysAllowed(ret.val)

C6_Witness ==
    /\ Done("close_out_labels") /\ ret.kind = "record" /\ last_status = 200
    /\ input_from = "other"
    /\ ret.val["head"] = [ref |-> Branch]
    /\ ret.val["base"] = [repo |-> [name |-> RepoName]]

\* C7: trimming a trimmed record changes nothing
C7_TrimIdempotent == pc = "retrimmed" => pr_json = pr_copy

C7_Witness ==
    /\ pc = "retrimmed"
    /\ "body" \in DOMAIN arg0
    /\ "sha" \in DOMAIN arg0["head"]
    /\ "ref" \in DOMAIN arg0["head"]
    /\ pr_json["head"] = [ref |-> Branch]
    /\ pr_json # arg0

\* refresh_pr is over; the cached record was closed and not merged
ClosedUnmergedCase ==
    /\ Done("refresh_pr")
    /\ arg0["state"] = "closed" /\ arg0["merged_at"] = None

\* C8, as stated: the refresh makes no network call and returns the record
C8_AsStated ==
    ClosedUnmergedCase =>
        /\ eff.net = 0
        /\ ret.kind = "record"
        /\ ret.val = trim_pr_json_keys(arg0, arg0)

\* C8, amended: refresh_pr makes no network call, deletes nothing, leaves
\* the cached record as it was and returns none
C8_ClosedRefreshIsLocalNone ==
    ClosedUnmergedCase =>
        /\ eff.net = 0 /\ NoAction
        /\ ret.kind = "None"
        /\ pr_json = arg0

C8_Witness == ClosedUnmergedCase /\ ret.kind = "None" /\ gh.state = "closed"

\* close_out_labels, not a dry run, started on a cached record that was
\* open and labeled while the remote pull request was closed or unlabeled
OutdatedCase ==
    /\ op = "close_out_labels" /\ ~dry_run /\ arg0 # <<>>
    /\ rerun_requested(arg0)
    /\ gh0.state = "closed" \/ ~HasRerun(gh0)

C10_SentinelKept ==
    (pc = "idle" /\ op \in {"refresh_pr", "close_out_labels", "close_out_dirty_prs"}
     /\ ~dry_run /\ eff.delete > 0 /\ ret.kind = "record") =>
        /\ ret.val["head"]["ref"] = NOT_A_BRANCH
        /\ op # "refresh_pr" => pr_json["head"]["ref"] = NOT_A_BRANCH

\* C11: while the caller has taken every returned record as the next cached
\* record, the passes on one pull request, retries included, push the
\* deletion of its branch at most once
C11_DeletionPushedAtMostOnce == chain.kept => chain.deletes <= 1

\* a non-dry-run refresh_pr of a cached record that was not closed is over
RefreshOpenCase == Done("refresh_pr") /\ ~dry_run /\ arg0["state"] # "closed"

Merged(pr) == pr["state"] = "closed" /\ HasTruthy(pr, "merged_at")

C13_DirtyRuleNeverLabelsRemote ==
    op = "close_out_dirty_prs" =>
        /\ eff.add_label = 0 /\ eff.create_label = 0
        /\ gh.labels = gh0.labels
        /\ label_exists

C13_Witness ==
    /\ Done("close_out_dirty_prs") /\ eff.close = 1 /\ ret.kind = "record"
    /\ HasBotRerunEntry(ret.val) /\ ~HasRerun(gh)

\* C14: after close_out_dirty_prs closed the pull request and returned, the
\* record that was passed in holds no bot-rerun entry, and BOT_RERUN_LABEL
\* is what it was
C14_LabelOnReturnedRecordOnly ==
    (Done("close_out_dirty_prs") /\ eff.close >= 1 /\ ret.kind = "record") =>
        /\ ~HasBotRerunEntry(pr_json)
        /\ BOT_RERUN_LABEL = [name |-> "bot-rerun"]

MutatingCalls(e) ==
    e.comment + e.close + e.delete + e.remote_add + e.push + e.create_pull
    + e.create_label + e.add_label

\* C15: a call with dry_run set makes no mutating call and leaves the
\* record passed in as it was
C15_DryRunMutatesNothing ==
    (dry_run /\ op # "none") => MutatingCalls(eff) = 0 /\ pr_json = arg0

\* C16: a dry-run push_repo runs none of remote add, push and create_pull,
\* leaves the clone, the fork and the pull request as they were, and
\* returns False whenever it returns, whether or not the clone has the
\* remote and the fork has the branch
C16_DryPublishIsNoOp ==
    (op = "push_repo" /\ dry_run) =>
        /\ eff.remote_add = 0 /\ eff.push = 0 /\ eff.create_pull = 0
        /\ eff.steps = <<>>
        /\ gh = gh0
        /\ pc \in {"pr_start", "idle"}
        /\ (pc = "idle" /\ ret.kind # "raise") => ret = RetFalse
        /\ (pc = "idle" /\ ret.kind = "raise") => eff.net = 1

C16_Witness ==
    /\ Done("push_repo") /\ dry_run /\ ret = RetFalse
    /\ regro_remote /\ fork_branch

\* the cached record says what the remote pull request is
InSync == arg0 = trim_pr_json_keys(AsDict(gh0), AsDict(gh0))

\* a non-dry-run call of a closure rule is over without an exception; a dry
\* run of the same rule on the same record had just answered; the cached
\* record and the remote pull request agreed
AfterDryCase(o) ==
    /\ Done(o) /\ ~dry_run /\ ret.kind # "raise"
    /\ dry_said # "none" /\ InSync

\* C17, as stated: the dry run returned a record exactly when the real run
\* closes the pull request
C17_AsStated ==
    \A o \in {"close_out_labels", "close_out_dirty_prs"} :
        AfterDryCase(o) => (dry_said = "record" <=> eff.close >= 1)

\* C17, amended: for close_out_labels the dry run returned a record exactly
\* when the real run closes the pull request, and exactly when a real run
\* that was not retried returns a record; for close_out_dirty_prs the dry
\* run returned a record exactly when the real run returns a record,
\* and the real run closes exactly when moreover every commit author is a
\* bot name
C17_DryRunTellsTheReturn ==
    /\ AfterDryCase("close_out_labels") =>
         /\ dry_said = "record" <=> eff.close >= 1
         /\ tries = 1 => (dry_said = "record" <=> ret.kind = "record")
    /\ AfterDryCase("close_out_dirty_prs") =>
         /\ dry_said = "record" <=> ret.kind = "record"
         /\ eff.close >= 1 <=>
              (dry_said = "record" /\ gh0.authors \subseteq CF_BOT_NAMES)

C17_Witness ==
    /\ AfterDryCase("close_out_dirty_prs") /\ dry_said = "record"
    /\ ret.kind = "record" /\ eff.close = 0 /\ HumanName \in gh0.authors

StepOrder == <<"remote_add", "push", "create_pull">>

\* C18: in a non-dry-run push_repo the steps that ran are remote add, push,
\* create_pull in that order, each at most once and each after the success
\* of the one before; a step that failed is the last step and the call
\* returns False; after a push that succeeded the branch is on the fork,
\* also when create_pull gave nothing; a record is returned only after all
\* three succeeded
C18_PublishStepsInOrder ==
    (op = "push_repo" /\ ~dry_run) =>
        LET st == eff.steps
            n == Len(st)
        IN  /\ n <= 3
            /\ \A i \in 1..n : st[i].step = StepOrder[i]
            /\ \A i \in 1..(n - 1) : st[i].ok
            /\ eff.remote_add = (IF n >= 1 THEN 1 ELSE 0)
            /\ eff.push = (IF n >= 2 THEN 1 ELSE 0)
            /\ eff.create_pull = (IF n >= 3 THEN 1 ELSE 0)
            /\ (n >= 1 /\ ~st[n].ok) => pc = "idle" /\ ret = RetFalse
            /\ (n >= 2 /\ st[2].ok) => fork_branch
            /\ (pc = "idle" /\ ret.kind = "record") => n = 3 /\ st[3].ok
            /\ (pc = "idle" /\ ret = RetFalse) => n >= 1 /\ ~st[n].ok

C18_Witness ==
    /\ Done("push_repo") /\ ~dry_run /\ ret = RetFalse
    /\ Len(eff.steps) = 3 /\ ~eff.steps[3].ok
    /\ fork_branch /\ gh.state = "closed"

\* C19: a non-dry-run push_repo that has returned, leaving a clone with the
\* remote regro_remote, a fork with the branch and no new pull request, has
\* pushed the branch and called create_pull
C19_RegisteredRemoteReused ==
    (Done("push_repo") /\ ~dry_run /\ ret.kind # "raise"
     /\ regro_remote /\ fork_branch /\ gh.state = "closed") =>
        eff.push = 1 /\ eff.create_pull = 1

\* C20: after a fetch answered 200 the record holds the allow-listed keys of
\* the response body with the values of the body, nested mappings trimmed,
\* and the ETag and Last-Modified of the response headers, whatever the
\* cached record held
C20_FreshResponseReplacesRecord ==
    (pc = "updated" /\ last_status = 200) =>
        LET body == GhJson(gh0)
            kept == (DOMAIN PR_KEYS_TO_KEEP \cap DOMAIN body)
        IN  /\ DOMAIN pr_json = kept \cup {"ETag", "Last-Modified"}
            /\ \A k \in kept \ {"head", "base"} : pr_json[k] = body[k]
            /\ pr_json["head"] = [ref |-> body["head"]["ref"]]
            /\ pr_json["base"] = [repo |-> [name |-> body["base"]["repo"]["name"]]]
            /\ pr_json["ETag"] = EtagOf(gh0)
            /\ pr_json["Last-Modified"] = LastModifiedOf(gh0)
            /\ pr_json = Put(Put(trim_pr_json_keys(arg0, body),
                                 "ETag", EtagOf(gh0)),
                             "Last-Modified", LastModifiedOf(gh0))
            /\ ret = RetRecord(pr_json)

C20_Witness ==
    /\ pc = "updated" /\ last_status = 200
    /\ arg0["head"]["ref"] = NOT_A_BRANCH /\ pr_json["head"]["ref"] = Branch
    /\ arg0["state"] = "open" /\ pr_json["state"] = "closed"
    /\ "ETag" \in DOMAIN arg0 /\ arg0["ETag"] # pr_json["ETag"]
    /\ arg0["base"] = <<>>

\* the keys whose values a fetch that brings nothing new must leave alone
Validators == {"state", "labels", "ETag", "Last-Modified"}

SameAt(d, e, k) ==
    /\ k \in DOMAIN d <=> k \in DOMAIN e
    /\ k \in DOMAIN d => d[k] = e[k]

\* C21, as stated: after a fetch answered with a status other than 200 the
\* record is the trim of the record that was cached, and no error is raised
C21_AsStated ==
    (pc = "updated" /\ last_status # 200) =>
        /\ ret = RetRecord(pr_json)
        /\ pr_json = trim_pr_json_keys(arg0, arg0)

\* C21, amended: after a fetch answered with a status other than 200 no
\* error is raised and the record is the trim of the record that was cached
\* except that base.repo.name holds the bare repository name; state,
\* labels, ETag and Last-Modified are as they were, an absent one absent
C21_ErrorStatusKeepsRecord ==
    (pc = "updated" /\ last_status # 200) =>
        /\ ret = RetRecord(pr_json)
        /\ pr_json = Put(trim_pr_json_keys(arg0, arg0), "base",
                         [repo |-> [name |-> RepoName]])
        /\ \A k \in Validators : SameAt(pr_json, arg0, k)

C21_Witness ==
    /\ pc = "updated" /\ last_status = 304
    /\ arg0["base"] = [repo |-> <<>>]
    /\ arg0["head"]["ref"] = NOT_A_BRANCH
    /\ pr_json # trim_pr_json_keys(arg0, arg0)
    /\ pr_json["ETag"] = arg0["ETag"]

\* C22: the request of lazy_update_pr_json carries If-None-Match, with the
\* cached ETag, exactly when force is off and the record has an ETag; with
\* force on or without a cached ETag the request has no condition and is
\* never answered 304
C22_ConditionalExactlyWhenCachedAndNotForced ==
    pc = "updated" =>
        /\ Len(eff.sent) = 1
        /\ (op = "lazy_update_pr_json" /\ "ETag" \in DOMAIN arg0)
               => eff.sent[1].if_none_match = <<arg0["ETag"]>>
        /\ (op = "lazy_update_pr_json_force" \/ "ETag" \notin DOMAIN arg0)
               => /\ eff.sent[1].if_none_match = <<>>
                  /\ last_status # 304

C22_Witness ==
    /\ pc = "updated" /\ op = "lazy_update_pr_json_force"
    /\ "ETag" \in DOMAIN arg0 /\ arg0["ETag"] = EtagOf(gh0)
    /\ arg0["number"] = PrNumber
    /\ last_status = 200

\* the cached record lacks base.repo or base.repo.name
LegacyBase(pr) ==
    "repo" \notin DOMAIN pr["base"] \/ "name" \notin DOMAIN pr["base"]["repo"]

\* C23: lazy_update_pr_json raises nothing on a cached record whose base
\* lacks repo or repo.name, or whose name carries a "/pull/..." suffix: the
\* request goes to the bare repository name, with the number of the record,
\* and afterwards base.repo.name of the record is that bare name
C23_LegacyRecordRepaired ==
    pc = "updated" =>
        /\ ret = RetRecord(pr_json)
        /\ eff.sent[1].name = RepoName
        /\ eff.sent[1].number = arg0["number"]
        /\ pr_json["base"] = [repo |-> [name |-> RepoName]]
        /\ (arg0["number"] = PrNumber /\ op = "lazy_update_pr_json"
            /\ "ETag" \in DOMAIN arg0 /\ arg0["ETag"] = EtagOf(gh0))
               => last_status \in {304, 500, 403}

C23_Witness ==
    /\ pc = "updated" /\ last_status = 304
    /\ LegacyBase(arg0)
    /\ arg0["html_url"] = HtmlUrl \o <<"/">>
    /\ eff.sent[1].name = RepoName
    /\ pr_json["base"]["repo"]["name"] = RepoName

\* C24: in a function under the decorator an exception that is not a
\* request exception ends the call where it occurs, as that exception and
\* without another attempt; an attempt is added only by a request exception
\* in a decorated function, which starts again from its first step
C24_OnlyRequestExceptionsRetried ==
    /\ [](eff.crash > 0 =>
            /\ eff.crash = 1
            /\ pc = "idle"
            /\ ret = RetRaised("GitHubError"))
    /\ [][tries' > tries =>
            /\ tries' = tries + 1
            /\ eff'.crash = 0
            /\ faults' = faults + 1
            /\ pc' \in {StartOf(o) : o \in RetryWrapped}
            /\ ret' = ret]_vars

C24_Witness ==
    /\ Done("close_out_labels")
    /\ ret = RetRaised("GitHubError")
    /\ tries = 1
    /\ eff.comment = 1 /\ eff.close = 0 /\ eff.crash = 1

\* C25: the decorator never makes more attempts than its budget allows; a
\* request exception reaches the caller of ensure_label_exists only when
\* the budget is used up, every attempt having failed; a call that ends
\* otherwise has its normal result, the label being there; and every call
\* ends
C25_RetriesEndWithinBudget ==
    /\ [](tries <= MaxTries)
    /\ [](Done("ensure_label_exists") =>
            /\ ret \in {RetRaise, RetNone}
            /\ ret = RetRaise => (tries = MaxTries /\ eff.net >= MaxTries)
            /\ ret = RetNone => (label_exists \/ dry_run))
    /\ ((pc # "idle") ~> (pc = "idle"))

C25_Witness ==
    /\ Done("ensure_label_exists")
    /\ ret = RetRaise
    /\ tries = MaxTries
    /\ eff.net = MaxTries /\ eff.create_label = 0

\* C26: a request exception of a network call reaches the caller of an
\* operation only after the operation has been tried again
C26_EveryNetworkFailureRetried ==
    (pc = "idle" /\ ret = RetRaise) => tries > 1

\* thread t has returned from is_github_api_limit_reached
LimitAsked(t) ==
    workers[t].pc = "idle" /\ workers[t].op = "is_github_api_limit_reached"

\* C27: a call of is_github_api_limit_reached makes one probe of the rate
\* limit, also when the probe fails, and returns True when the probe failed
\* or the limit had 0 requests left at the time of the probe, False when it
\* had more
C27_LimitProbedOncePerCall ==
    \A t \in Threads :
        LimitAsked(t) =>
            /\ workers[t].probes = 1
            /\ workers[t].ret =
                   [kind |-> "bool",
                    val |-> (~workers[t].probe_ok
                             \/ workers[t].rate_then.remaining = 0)]

C27_Witness ==
    \E t, u \in Threads :
        /\ LimitAsked(t) /\ LimitAsked(u)
        /\ ~workers[t].probe_ok /\ workers[t].rate_then.remaining > 0
        /\ workers[t].ret.val = TRUE
        /\ workers[u].probe_ok /\ workers[u].rate_then.remaining > 0
        /\ workers[u].ret.val = FALSE
        /\ rate.remaining = 0

\* C28: whatever the interleaving of the threads, a thread constructs at
\* most one handle of each kind, all its calls of github3_client() return
\* one handle and all its calls of github_client() return one handle, and
\* no handle is returned to two threads
C28_OneClientPerThread ==
    \A t \in Threads : \A k \in ClientKinds :
        /\ made[t][k] <= 1
        /\ Cardinality(workers[t].got[k]) <= 1
        /\ workers[t].got[k] \subseteq {[by |-> t, kind |-> k, n |-> 1]}
        /\ \A u \in Threads \ {t} : \A j \in ClientKinds :
               workers[t].got[k] \cap workers[u].got[j] = {}

C28_Witness ==
    /\ \A t \in Threads : \A k \in ClientKinds :
           made[t][k] = 1 /\ workers[t].got[k] # {}
    /\ \E t \in Threads :
           /\ workers[t].pc = "client_return"
           /\ workers[t].op = "github3_client"
    /\ \E u \in Threads : workers[u].pc = "client_check"

\* the git commands whose failure fetch_repo catches, with the command run
\* next
Fallback ==
    [remote_add |-> "fetch", checkout_track |-> "checkout_new",
     checkout_target |-> "create_target"]

\* C29: fetch_repo returns False exactly when the directory was missing and
\* git clone failed, and then nothing else was run; the failure of remote
\* add, of the tracked checkout and of the checkout of the target branch is
\* followed by the next command (fetch, checkout -b of the base branch from
\* the upstream ref, checkout -b of the target branch); the failure of any
\* other command ends the call with CalledProcessError
C29_FalseOnlyOnFailedClone ==
    Done("fetch_repo") =>
        LET g == eff.git
        IN  /\ ret \in {RetFalse, RetTrue, RetRaised("CalledProcessError")}
            /\ ret = RetFalse <=>
                   (~arg0.dir /\ g = <<[cmd |-> "clone", ok |-> FALSE]>>)
            /\ (g[1].cmd = "clone") <=> ~arg0.dir
            /\ \A i \in 1..Len(g) :
                   ~g[i].ok =>
                      IF g[i].cmd \in DOMAIN Fallback
                      THEN i < Len(g) /\ g[i + 1].cmd = Fallback[g[i].cmd]
                      ELSE /\ i = Len(g)
                           /\ g[i].cmd = "clone" => ret = RetFalse
                           /\ g[i].cmd # "clone" =>
                                  ret = RetRaised("CalledProcessError")
            /\ ret = RetTrue =>
                   \A i \in 1..Len(g) : ~g[i].ok => g[i].cmd \in DOMAIN Fallback

C29_Witness ==
    /\ Done("fetch_repo")
    /\ ret = RetTrue
    /\ \A c \in DOMAIN Fallback :
           \E i \in 1..Len(eff.git) : eff.git[i] = [cmd |-> c, ok |-> FALSE]

\* C30: when fetch_repo has returned True the local base branch is at the
\* commit upstream had at the fetch of this call, a commit of upstream,
\* whether the branch was there before (diverged or not), was created by
\* the tracked checkout or from the upstream ref; the target branch exists
\* and is checked out
C30_BaseAtUpstreamTip ==
    (Done("fetch_repo") /\ ret = RetTrue) =>
        /\ clone.base = clone.fetched
        /\ clone.base \in 1..upstream_tip
        /\ clone.ref = clone.base
        /\ clone.target # NoBranch
        /\ clone.head = "target"

C30_Witness ==
    /\ Done("fetch_repo") /\ ret = RetTrue
    /\ arg0.base = LocalCommit
    /\ clone.base = clone.fetched
    /\ clone.fetched = MaxTip

\* C31: when fetch_repo has returned True the target branch is checked out;
\* a target branch that was there locally is as it was, and one that was
\* not is at the commit of the synced base branch
C31_TargetFromSyncedBase ==
    (Done("fetch_repo") /\ ret = RetTrue) =>
        /\ clone.head = "target"
        /\ IF arg0.target # NoBranch
           THEN clone.target = arg0.target
           ELSE clone.target = clone.base

\* C32: between the calls of fetch_repo and push_repo, once a call has
\* ended without an exception, the clone directory has the two remotes
\* origin and upstream and no other, and a directory that was there when
\* fetch_repo was called is reset and not cloned again
C32_TwoRemotesNoReclone ==
    /\ (pc = "idle" /\ clone.dir /\ ret.kind \notin {"unset", "raise"})
           => Remotes = {"origin", "upstream"}
    /\ (Done("fetch_repo") /\ arg0.dir /\ eff.git # <<>>)
           => eff.git[1].cmd = "reset_head"

\* the positions of the step name in the steps of the call
StepsNamed(name) == {i \in DOMAIN eff.steps : eff.steps[i].step = name}

\* every create_fork and every rename_branch is directly followed by a wait,
\* and nothing else waits
WaitsFollow ==
    /\ \A i \in StepsNamed("create_fork") \cup StepsNamed("rename") :
          i < Len(eff.steps) /\ eff.steps[i + 1].step = "sleep"
    /\ eff.sleep = eff.create_fork + eff.rename

\* get_repo was called with fork enabled and has found upstream
ForkPath == op = "get_repo" /\ arg0 # <<>> /\ arg0.fork

\* C33: in get_repo with fork enabled and upstream present the fork is
\* created only when the fork lookup raised or returned no repository, at
\* most once per call and followed by one fixed wait; the default branch of
\* the fork is renamed only when its name differs from upstream's; after a
\* call that returns the two names are equal; when the lookup returns the
\* fork and the names match there is no creation, no rename and no wait
C33_ForkCreatedAndSyncedOnce ==
    /\ [](ForkPath =>
            /\ eff.create_fork <= 1
            /\ eff.rename <= 1
            /\ (eff.create_fork = 1 => eff.fork_seen \in {"raised", "none"})
            /\ WaitsFollow
            /\ ((pc = "idle" /\ ret.kind \in {"dir_repo", "False"}
                     /\ gh0.upstream)
                  => forge.fork_default = forge.default)
            /\ ((eff.fork_seen = "found"
                     /\ gh0.fork_default = gh0.default)
                  => eff.create_fork = 0 /\ eff.rename = 0 /\ eff.sleep = 0))
    /\ [][(ForkPath /\ eff'.rename > eff.rename)
             => forge.fork_default # forge.default
                /\ forge'.fork_default = forge'.default]_vars

\* a call of get_repo that created the fork, found a differing default
\* branch, renamed it and returned
C33_Witness ==
    /\ Done("get_repo")
    /\ arg0.fork
    /\ ret = RetDirRepo
    /\ eff.create_fork = 1
    /\ eff.rename = 1
    /\ eff.sleep = 2

\* C34: when the upstream repository is absent under the expected name,
\* get_repo raises nothing, writes the "bad" annotation into pr_info,
\* returns (False, False) and makes no fork lookup, fork creation, rename,
\* clone or fetch
C34_AbsentUpstreamIsBad ==
    (op = "get_repo" /\ (arg0.fork \/ arg0.pull_request) /\ ~forge.upstream
        /\ pc \notin {"gr_me", "gr_upstream"} /\ ret # RetRaise)
      => /\ pc = "idle"
         /\ ret = RetFalse
         /\ "bad" \in DOMAIN pr_info
         /\ eff.fork_seen = "unset"
         /\ eff.create_fork = 0
         /\ eff.rename = 0
         /\ eff.sleep = 0
         /\ eff.git = <<>>
         /\ forge = gh0

\* a call of get_repo that met an absent upstream repository
C34_Witness ==
    /\ Done("get_repo")
    /\ arg0.fork
    /\ ~forge.upstream
    /\ ret = RetFalse
    /\ "bad" \in DOMAIN pr_info
    /\ eff.net = 2

HostPrefixes == {HttpPrefix, HttpsPrefix, SshPrefix}

ExampleUrl ==
    <<"g", "i", "t", "@", "g", "i", "t", "h", "u", "b", ".", "c", "o", "m",
      ":", "c", "o", "n", "d", "a", "-", "f", "o", "r", "g", "e", "/", "f",
      "o", "o", "-", "f", "e", "e", "d", "s", "t", "o", "c", "k", ".", "g",
      "i", "t">>
ExampleFork ==
    <<"g", "i", "t", "@", "g", "i", "t", "h", "u", "b", ".", "c", "o", "m",
      ":", "a", "l", "i", "c", "e", "/", "f", "o", "o", "-", "f", "e", "e",
      "d", "s", "t", "o", "c", "k", ".", "g", "i", "t">>
Alice == <<"a", "l", "i", "c", "e">>

\* C35: fork_url("git@github.com:conda-forge/foo-feedstock.git", "alice") is
\* "git@github.com:alice/foo-feedstock.git", and for every URL feedstock_url
\* builds for ssh, http or https and every username fork_url replaces
\* exactly the owner segment conda-forge by the username and keeps the host
\* prefix and the repository name
C35_ForkUrlSwapsOwner ==
    op = "fork_url" =>
        /\ ret.kind = "str"
        /\ \E h \in HostPrefixes :
             LET name == SubSeq(arg0.url, Len(h) + Len(CondaForge) + 2,
                                Len(arg0.url))
             IN  /\ arg0.url = h \o CondaForge \o Slash \o name
                 /\ Positions(name, "/") = {}
                 /\ ret.val = h \o arg0.username \o Slash \o name
        /\ (arg0.url = ExampleUrl /\ arg0.username = Alice)
              => ret.val = ExampleFork

\* fork_url has answered for the URL and the username of the example
C35_Witness ==
    /\ op = "fork_url"
    /\ arg0.url = ExampleUrl
    /\ arg0.username = Alice
    /\ ret = RetStr(ExampleFork)

\* the captured texts of the call, in the order of the loop
CapturedTexts ==
    (IF arg0.stdout.kind = "str"
     THEN <<[dev |-> "stdout", text |-> arg0.stdout.text]>> ELSE <<>>)
    \o (IF arg0.stderr.kind = "str"
        THEN <<[dev |-> "stderr", text |-> arg0.stderr.text]>> ELSE <<>>)

MaskingOps ==
    {"print_subprocess_output_strip_token", "run_command_hiding_token"}

\* a token the mask cannot rebuild: not empty and without an asterisk
PlainToken(token) == token # <<>> /\ Positions(token, "*") = {}

\* C36 as stated: for every captured text and every token the written text
\* has the length of the captured one and does not contain the token
C36_AsStated ==
    op \in MaskingOps =>
        \A i \in DOMAIN logs.out :
            /\ Len(logs.out[i].text) = Len(CapturedTexts[i].text)
            /\ ~Contains(logs.out[i].text, arg0.token)

\* C36: every text written has the length of the captured text and differs
\* from it only where it shows the mask character; for a non-empty token
\* without an asterisk it does not contain the token; what is written is
\* the captured streams in order, stdout before stderr, a stream that was
\* not captured being skipped; run_command_hiding_token writes through this
\* masking only and returns the exit code of the command
C36_TokenMasked ==
    op \in MaskingOps =>
        /\ Len(logs.out) <= Len(CapturedTexts)
        /\ \A i \in DOMAIN logs.out :
              LET written == logs.out[i].text
                  captured == CapturedTexts[i].text
              IN  /\ logs.out[i].dev = CapturedTexts[i].dev
                  /\ Len(written) = Len(captured)
                  /\ \A k \in DOMAIN written :
                        written[k] = captured[k] \/ written[k] = "*"
                  /\ PlainToken(arg0.token)
                        => ~Contains(written, arg0.token)
                  /\ ~Contains(captured, arg0.token) => written = captured
        /\ (pc = "idle" /\ ret.kind # "raise")
              => Len(logs.out) = Len(CapturedTexts)
        /\ (pc = "idle" /\ op = "run_command_hiding_token")
              => ret = RetInt(arg0.returncode)

\* run_command_hiding_token has masked two occurrences of the token on
\* stdout and returned the exit code
C36_Witness ==
    /\ Done("run_command_hiding_token")
    /\ arg0.token = <<"a">>
    /\ arg0.stdout.text = <<"a", "b", "a">>
    /\ logs.out[1].text = <<"*", "b", "*">>
    /\ arg0.returncode = 1
    /\ ret = RetInt(1)

\* the nodes reached from the nodes S along the edges of G, S included
RECURSIVE ReachedFrom(_, _)
ReachedFrom(G, S) ==
    LET next == S \cup UNION {OutNodes(G, u) : u \in S}
    IN  IF next = S THEN S ELSE ReachedFrom(G, next)

\* there is a path of at least one edge from u to v
Reachable(G, u, v) == v \in ReachedFrom(G, OutNodes(G, u))

\* pluck keeps the reachability between the nodes that remain
PluckKeepsPaths ==
    op = "pluck" =>
        \A u, v \in arg0.G.nodes :
            Reachable(arg0.G, u, v) <=> Reachable(arg0.G0, u, v)

\* C37: after pluck(G, n) on a node of G the node is gone and v is
\* reachable from u exactly when it was before, for all remaining u and v;
\* no self-loop is added on a node that had none; pluck on a node that is
\* not in G leaves G unchanged
C37_PluckKeepsConnectivity ==
    op = "pluck" =>
        IF arg0.node_id \in arg0.G0.nodes
        THEN /\ arg0.G.nodes = arg0.G0.nodes \ {arg0.node_id}
             /\ PluckKeepsPaths
             /\ \A u \in arg0.G.nodes :
                   <<u, u>> \in arg0.G.edges => <<u, u>> \in arg0.G0.edges
        ELSE arg0.G = arg0.G0

\* C38: refresh_pr never changes the record passed to it: it refreshes,
\* trims and writes the branch-deletion sentinel on a deep copy only, and
\* during the call and after it, whatever the outcome, the record of the
\* caller is the one that was passed, with the same state, labels, ETag and
\* head.ref
C38_CallerRecordUntouched ==
    (op = "refresh_pr" /\ prev = NoPrev) =>
        /\ pr_json = arg0
        /\ (pc = "idle" /\ eff.delete > 0) =>
              /\ ret.kind = "record"
              /\ ret.val["head"]["ref"] = NOT_A_BRANCH
              /\ ret.val # pr_json

\* refresh_pr has found the pull request merged, pushed the deletion and
\* returned a record with the sentinel, and the record of the caller still
\* names the branch
C38_Witness ==
    /\ Done("refresh_pr")
    /\ prev = NoPrev
    /\ ret.kind = "record"
    /\ eff.delete = 1
    /\ ret.val["head"]["ref"] = NOT_A_BRANCH
    /\ pr_json["state"] = "open"
    /\ pr_json["head"]["ref"] = Branch
    /\ ret.val["state"] = "closed"

\* C39: every branch push of push_repo and every branch-deletion push of
\* delete_branch is aimed at a repository owned by the authenticated bot
\* user; no branch is pushed to or deleted from the upstream conda-forge
\* repository
C39_PushesStayInFork ==
    /\ eff.pushed_to \subseteq {BotLogin}
    /\ UpstreamOwner \notin eff.pushed_to
    /\ (eff.push + eff.delete > 0) => eff.pushed_to = {BotLogin}

\* a merged pull request whose branch refresh_pr has deleted in the fork
C39_Witness ==
    /\ Done("refresh_pr")
    /\ eff.delete = 1
    /\ eff.pushed_to = {BotLogin}
    /\ input_from = "other"
    /\ ~fork_branch

\* the log groups open after the first n lines written: a group line opens
\* one, an endgroup line closes one
OpenGroups(n) ==
    Cardinality({i \in LinesOf(logs.out, "group") : i <= n})
        - Cardinality({i \in LinesOf(logs.out, "endgroup") : i <= n})

\* C40: with GITHUB_ACTIONS set to true, for any nesting or sequence of
\* fold_log_lines sections, sections left by an exception included, at most
\* one log group is open at a time, every "::endgroup::" written is
\* matched by an earlier unmatched "::group::", and LOG_LINES_FOLDED is
\* true exactly while a group is open
C40_GroupsBalanced ==
    logs.github_actions =>
        /\ \A n \in 0..Len(logs.out) : OpenGroups(n) \in {0, 1}
        /\ logs.folded <=> OpenGroups(Len(logs.out)) = 1

====
